---- MODULE Spec2Model ----
(***************************************************************************)
(* Severity aggregation of the tyre visual-difference engine               *)
(* (python-service/severity_calculator.py, class SeverityCalculator).      *)
(*                                                                         *)
(* Python floats are modelled as exact rationals [n |-> num, d |-> den]    *)
(* in lowest terms with d > 0, so that structural equality is numeric      *)
(* equality.  IEEE-754 rounding of the individual operations is not part   *)
(* of the model.  Python dicts are functions whose DOMAIN is the set of    *)
(* keys present; dict.get(k, default) is Get.                              *)
(***************************************************************************)
EXTENDS Integers, Sequences, FiniteSets, TLC

(***************************************************************************)
(* Bounds of the model.                                                    *)
(***************************************************************************)
MaxLabels == 3      \* longest damage_types list handed to the pure functions
MaxExtra  == 1      \* longest list appended to it when comparing two calls
MaxFrames == 2      \* longest per-frame sequence (frame_results)
MaxInvocations == 3 \* most calls made one after the other on one output_dir
MaxVideoFrames == 6 \* most frames of a video handed to the damage classifier
MaxJobs == 2        \* most jobs the service accepts
MaxTasks == 2       \* most callers of the core running side by side

(***************************************************************************)
(* Exact rational arithmetic standing for float arithmetic.                *)
(***************************************************************************)
Abs(x) == IF x < 0 THEN -x ELSE x

RECURSIVE GCD(_, _)
GCD(a, b) == IF b = 0 THEN a ELSE GCD(b, a % b)

\* the rational num/den in lowest terms (den # 0)
Q(num, den) ==
    LET g == GCD(Abs(num), Abs(den))
        s == IF den < 0 THEN -1 ELSE 1
    IN  [n |-> (s * num) \div g, d |-> (s * den) \div g]

QInt(k)    == [n |-> k, d |-> 1]
QAdd(a, b) == Q(a.n * b.d + b.n * a.d, a.d * b.d)
QMul(a, b) == Q(a.n * b.n, a.d * b.d)
QDiv(a, b) == Q(a.n * b.d, a.d * b.n)
QLe(a, b)  == a.n * b.d <= b.n * a.d
QLt(a, b)  == a.n * b.d <  b.n * a.d
\* Python min(a, b) / max(a, b): the first argument wins a tie
QMin(a, b) == IF QLt(b, a) THEN b ELSE a
QMax(a, b) == IF QLt(a, b) THEN b ELSE a

Zero    == QInt(0)
One     == QInt(1)
Hundred == QInt(100)

(***************************************************************************)
(* State: the invocation of a method of a SeverityCalculator, the class    *)
(* attributes the methods read through self, and the files of output_dir.  *)
(***************************************************************************)
VARIABLES
    op,          \* the method invoked
    args,        \* its arguments
    pc,          \* "idle" before any call, "call" while a call is pending,
                 \* "done" after it returned, "raised" after it raised
    ret,         \* the value returned (pc = "done") or the exception (pc = "raised")
    files,       \* output_dir: file name -> JSON document written
    class_attrs, \* the attributes of class SeverityCalculator
    writes,      \* how often the results file has been written
    returns,     \* how many calls of calculate_overall_severity have returned
    jobs,        \* the job tables of the service: kind -> job_id -> record
    tasks,       \* the background tasks and the concurrent callers of the core
    disk,        \* the file system the service works on: path -> content
    response     \* the request just handled with the response to it, <<>> once delivered

(***************************************************************************)
(* The class body of SeverityCalculator.                                   *)
(***************************************************************************)
DAMAGE_TYPE_SEVERITY ==
    [blistering |-> Q(7, 10)] @@ ("micro-cracks" :> Q(5, 10)) @@
    [grain |-> Q(4, 10), cuts |-> Q(8, 10)] @@
    ("flat-spots" :> Q(9, 10)) @@ [chunking |-> Q(10, 10)]

DEFAULT_TYPE_SEVERITY == Q(5, 10)      \* .get(damage_type, 0.5)

\* faulty variant: half of the score comes from the crack density
CRACK_DENSITY_WEIGHT_half == Q(50, 100)

CRACK_DENSITY_WEIGHT == Q(40, 100)
DEPTH_WEIGHT         == Q(30, 100)
DAMAGE_TYPE_WEIGHT   == Q(30, 100)

DEFAULT_MAX_DENSITY == QInt(10)        \* max_density: float = 10.0
DEFAULT_MAX_DEPTH   == QInt(5)         \* max_depth: float = 5.0

\* the class attributes once the class body has been executed
ClassBody ==
    [DAMAGE_TYPE_SEVERITY |-> DAMAGE_TYPE_SEVERITY,
     CRACK_DENSITY_WEIGHT |-> CRACK_DENSITY_WEIGHT,
     DEPTH_WEIGHT         |-> DEPTH_WEIGHT,
     DAMAGE_TYPE_WEIGHT   |-> DAMAGE_TYPE_WEIGHT]

(***************************************************************************)
(* dict.get(key, default)                                                  *)
(***************************************************************************)
\* faulty variant: a missing number reads as 1.0
Get_unit_default(dict, key, default) ==
    IF key \in DOMAIN dict THEN dict[key]
    ELSE IF default = Zero THEN One ELSE default

Get(dict, key, default) == IF key \in DOMAIN dict THEN dict[key] ELSE default

(***************************************************************************)
(* The pure methods.                                                       *)
(***************************************************************************)
\* faulty variant: the ratio is not clamped
normalize_crack_density_unclamped(crack_density, max_density) ==
    QDiv(crack_density, max_density)

normalize_crack_density(crack_density, max_density) ==
    QMin(QDiv(crack_density, max_density), One)

\* faulty variant: depths are measured against the ceiling of the densities
normalize_depth_density_ceiling(depth_mm, max_depth) ==
    QMin(QDiv(depth_mm, DEFAULT_MAX_DENSITY), One)

normalize_depth(depth_mm, max_depth) ==
    QMin(QDiv(depth_mm, max_depth), One)

\* severities = [DAMAGE_TYPE_SEVERITY.get(t, 0.5) for t in damage_types]
Severities(damage_types) ==
    [i \in 1..Len(damage_types) |->
        Get(class_attrs.DAMAGE_TYPE_SEVERITY, damage_types[i], DEFAULT_TYPE_SEVERITY)]

\* Python max(list) of a non-empty list: left to right, first maximum kept
RECURSIVE MaxOfList(_)
MaxOfList(s) ==
    IF Len(s) = 1 THEN s[1]
    ELSE QMax(MaxOfList(SubSeq(s, 1, Len(s) - 1)), s[Len(s)])

\* Python min(list) of a non-empty list
RECURSIVE MinOfList(_)
MinOfList(s) ==
    IF Len(s) = 1 THEN s[1]
    ELSE QMin(MinOfList(SubSeq(s, 1, Len(s) - 1)), s[Len(s)])

\* sum of a list, starting from 0
RECURSIVE SumOfList(_)
SumOfList(s) ==
    IF Len(s) = 0 THEN Zero
    ELSE QAdd(SumOfList(SubSeq(s, 1, Len(s) - 1)), s[Len(s)])

\* np.mean(list) of a non-empty list
Mean(s) == QDiv(SumOfList(s), QInt(Len(s)))

\* faulty variants: the mean of the severities; the severity of the last label
calculate_damage_type_severity_mean(damage_types) ==
    IF Len(damage_types) = 0 THEN Zero
    ELSE Mean(Severities(damage_types))

calculate_damage_type_severity_last(damage_types) ==
    IF Len(damage_types) = 0 THEN Zero
    ELSE Severities(damage_types)[Len(damage_types)]

calculate_damage_type_severity(damage_types) ==
    IF Len(damage_types) = 0 THEN Zero
    ELSE MaxOfList(Severities(damage_types))

\* faulty variant: the crack and depth weights exchanged
calculate_severity_score_swapped_weights(crack_density, depth_mm, damage_types) ==
    LET crack_score       == normalize_crack_density(crack_density, DEFAULT_MAX_DENSITY)
        depth_score       == normalize_depth(depth_mm, DEFAULT_MAX_DEPTH)
        damage_type_score == calculate_damage_type_severity(damage_types)
        severity == QAdd(QAdd(QMul(crack_score, class_attrs.DEPTH_WEIGHT),
                              QMul(depth_score, class_attrs.CRACK_DENSITY_WEIGHT)),
                         QMul(damage_type_score, class_attrs.DAMAGE_TYPE_WEIGHT))
    IN  QMul(severity, Hundred)

calculate_severity_score(crack_density, depth_mm, damage_types) ==
    LET crack_score       == normalize_crack_density(crack_density, DEFAULT_MAX_DENSITY)
        depth_score       == normalize_depth(depth_mm, DEFAULT_MAX_DEPTH)
        damage_type_score == calculate_damage_type_severity(damage_types)
        severity == QAdd(QAdd(QMul(crack_score, class_attrs.CRACK_DENSITY_WEIGHT),
                              QMul(depth_score, class_attrs.DEPTH_WEIGHT)),
                         QMul(damage_type_score, class_attrs.DAMAGE_TYPE_WEIGHT))
    IN  QMul(severity, Hundred)

calculate_frame_severity(crack_density, depth_mm, damage_types) ==
    LET crack_score       == normalize_crack_density(crack_density, DEFAULT_MAX_DENSITY)
        depth_score       == normalize_depth(depth_mm, DEFAULT_MAX_DEPTH)
        damage_type_score == calculate_damage_type_severity(damage_types)
    IN  [severity_score      |-> calculate_severity_score(crack_density, depth_mm, damage_types),
         crack_density_score |-> QMul(crack_score, Hundred),
         depth_score         |-> QMul(depth_score, Hundred),
         damage_type_score   |-> QMul(damage_type_score, Hundred)]

\* faulty variant: 80 itself already asks for replacement
get_recommended_action_inclusive_high(severity_score) ==
    IF QLe(QInt(80), severity_score) THEN "replace-immediately"
    ELSE IF QLe(QInt(50), severity_score) THEN "monitor-next-stint"
    ELSE "safe-qualifying-only"

\* faulty variant: monitoring starts at 40
get_recommended_action_monitor_from_40(severity_score) ==
    IF QLt(QInt(80), severity_score) THEN "replace-immediately"
    ELSE IF QLe(QInt(40), severity_score) THEN "monitor-next-stint"
    ELSE "safe-qualifying-only"

get_recommended_action(severity_score) ==
    IF QLt(QInt(80), severity_score) THEN "replace-immediately"
    ELSE IF QLe(QInt(50), severity_score) THEN "monitor-next-stint"
    ELSE "safe-qualifying-only"


\* an empty dict {}
EmptyDict == <<>>

\* faulty variant: the longest of the three lengths
NumFrames_longest(crack_frames, depth_frames, damage_frames) ==
    LET lens == {Len(crack_frames), Len(depth_frames), Len(damage_frames)}
    IN  CHOOSE m \in lens : \A k \in lens : m >= k

\* num_frames = min(len(crack_frames), len(depth_frames), len(damage_frames))
NumFrames(crack_frames, depth_frames, damage_frames) ==
    LET lens == {Len(crack_frames), Len(depth_frames), Len(damage_frames)}
    IN  CHOOSE m \in lens : \A k \in lens : m <= k

\* faulty variant: the first frame whose frame_index field is i
FrameAt_by_frame_index(frames, i) ==
    LET hits == {j \in 1..Len(frames) : Get(frames[j], "frame_index", j - 1) = i}
    IN  IF hits # {} THEN frames[CHOOSE j \in hits : \A k \in hits : j <= k]
        ELSE EmptyDict

\* frames[i] if i < len(frames) else {}      (i is 0-based)
FrameAt(frames, i) ==
    IF i < Len(frames) THEN frames[i + 1] ELSE EmptyDict

\* faulty variant: frames counted from 1
RotationAngle_one_based(i, num_frames) ==
    QMul(QDiv(QInt(i + 1), QInt(num_frames)), QInt(360))

\* rotation_angle = (i / num_frames) * 360.0      (i is 0-based)
RotationAngle(i, num_frames) ==
    QMul(QDiv(QInt(i), QInt(num_frames)), QInt(360))

\* generate_severity_timeline: positional join of the three frame_results
generate_severity_timeline(crack_results, depth_results, damage_results) ==
    LET crack_frames  == Get(crack_results, "frame_results", <<>>)
        depth_frames  == Get(depth_results, "frame_results", <<>>)
        damage_frames == Get(damage_results, "frame_results", <<>>)
        num_frames    == NumFrames(crack_frames, depth_frames, damage_frames)
        \* the loop body for the 0-based index i of range(num_frames)
        Point(i) ==
            LET crack_data  == FrameAt(crack_frames, i)
                depth_data  == FrameAt(depth_frames, i)
                damage_data == FrameAt(damage_frames, i)
                crack_density == Get(crack_data, "crack_density", Zero)
                depth_mm      == Get(depth_data, "max_depth_mm", Zero)
                damage_types  == Get(damage_data, "damage_types", <<>>)
                frame_severity == calculate_frame_severity(crack_density, depth_mm, damage_types)
            IN  [rotation_angle      |-> RotationAngle(i, num_frames),
                 severity            |-> frame_severity.severity_score,
                 crack_density_score |-> frame_severity.crack_density_score,
                 depth_score         |-> frame_severity.depth_score,
                 damage_type_score   |-> frame_severity.damage_type_score]
    IN  IF num_frames = 0 THEN <<>>
        ELSE [j \in 1..num_frames |-> Point(j - 1)]

\* faulty variants: zero statistics for an empty timeline;
\* the aggregate score as the average
TimelineStatistics_zero_fallback(timeline, overall_severity) ==
    LET timeline_severities == [j \in 1..Len(timeline) |-> timeline[j].severity]
    IN  IF Len(timeline) > 0
        THEN [max_severity     |-> MaxOfList(timeline_severities),
              min_severity     |-> MinOfList(timeline_severities),
              average_severity |-> Mean(timeline_severities)]
        ELSE [max_severity     |-> Zero,
              min_severity     |-> Zero,
              average_severity |-> Zero]

TimelineStatistics_aggregate_average(timeline, overall_severity) ==
    LET timeline_severities == [j \in 1..Len(timeline) |-> timeline[j].severity]
    IN  IF Len(timeline) > 0
        THEN [max_severity     |-> MaxOfList(timeline_severities),
              min_severity     |-> MinOfList(timeline_severities),
              average_severity |-> overall_severity]
        ELSE [max_severity     |-> overall_severity,
              min_severity     |-> overall_severity,
              average_severity |-> overall_severity]

\* the timeline statistics of calculate_overall_severity
TimelineStatistics(timeline, overall_severity) ==
    LET timeline_severities == [j \in 1..Len(timeline) |-> timeline[j].severity]
    IN  IF Len(timeline) > 0
        THEN [max_severity     |-> MaxOfList(timeline_severities),
              min_severity     |-> MinOfList(timeline_severities),
              average_severity |-> Mean(timeline_severities)]
        ELSE [max_severity     |-> overall_severity,
              min_severity     |-> overall_severity,
              average_severity |-> overall_severity]

\* faulty variant: the action follows the worst frame of the timeline
SeverityAnalysis_action_from_worst_frame(crack_results, depth_results, damage_results) ==
    LET avg_crack_density == Get(crack_results, "average_crack_density", Zero)
        max_depth_mm      == Get(depth_results, "max_depth_estimate_mm", Zero)
        damage_types      == Get(damage_results, "detected_damage_types", <<>>)
        overall_severity  == calculate_severity_score(avg_crack_density, max_depth_mm, damage_types)
        crack_score       == QMul(normalize_crack_density(avg_crack_density, DEFAULT_MAX_DENSITY), Hundred)
        depth_score       == QMul(normalize_depth(max_depth_mm, DEFAULT_MAX_DEPTH), Hundred)
        damage_type_score == QMul(calculate_damage_type_severity(damage_types), Hundred)
        timeline          == generate_severity_timeline(crack_results, depth_results, damage_results)
        statistics        == TimelineStatistics(timeline, overall_severity)
        recommended_action == get_recommended_action(statistics.max_severity)
    IN  [overall_severity_score |-> overall_severity,
         recommended_action     |-> recommended_action,
         component_scores       |-> [crack_density_score |-> crack_score,
                                     depth_score         |-> depth_score,
                                     damage_type_score   |-> damage_type_score],
         severity_timeline      |-> timeline,
         timeline_statistics    |-> statistics,
         input_metrics          |-> [average_crack_density |-> avg_crack_density,
                                     max_depth_mm          |-> max_depth_mm,
                                     damage_types          |-> damage_types]]

\* faulty variant: the overall score is the mean of the frames' severities
SeverityAnalysis_score_from_timeline(crack_results, depth_results, damage_results) ==
    LET avg_crack_density == Get(crack_results, "average_crack_density", Zero)
        max_depth_mm      == Get(depth_results, "max_depth_estimate_mm", Zero)
        damage_types      == Get(damage_results, "detected_damage_types", <<>>)
        timeline          == generate_severity_timeline(crack_results, depth_results, damage_results)
        aggregate_severity == calculate_severity_score(avg_crack_density, max_depth_mm, damage_types)
        statistics        == TimelineStatistics(timeline, aggregate_severity)
        overall_severity  == statistics.average_severity
        crack_score       == QMul(normalize_crack_density(avg_crack_density, DEFAULT_MAX_DENSITY), Hundred)
        depth_score       == QMul(normalize_depth(max_depth_mm, DEFAULT_MAX_DEPTH), Hundred)
        damage_type_score == QMul(calculate_damage_type_severity(damage_types), Hundred)
        recommended_action == get_recommended_action(overall_severity)
    IN  [overall_severity_score |-> overall_severity,
         recommended_action     |-> recommended_action,
         component_scores       |-> [crack_density_score |-> crack_score,
                                     depth_score         |-> depth_score,
                                     damage_type_score   |-> damage_type_score],
         severity_timeline      |-> timeline,
         timeline_statistics    |-> statistics,
         input_metrics          |-> [average_crack_density |-> avg_crack_density,
                                     max_depth_mm          |-> max_depth_mm,
                                     damage_types          |-> damage_types]]

\* the severity_analysis dict compiled by calculate_overall_severity
SeverityAnalysis(crack_results, depth_results, damage_results) ==
    LET avg_crack_density == Get(crack_results, "average_crack_density", Zero)
        max_depth_mm      == Get(depth_results, "max_depth_estimate_mm", Zero)
        damage_types      == Get(damage_results, "detected_damage_types", <<>>)
        overall_severity  == calculate_severity_score(avg_crack_density, max_depth_mm, damage_types)
        crack_score       == QMul(normalize_crack_density(avg_crack_density, DEFAULT_MAX_DENSITY), Hundred)
        depth_score       == QMul(normalize_depth(max_depth_mm, DEFAULT_MAX_DEPTH), Hundred)
        damage_type_score == QMul(calculate_damage_type_severity(damage_types), Hundred)
        timeline          == generate_severity_timeline(crack_results, depth_results, damage_results)
        statistics        == TimelineStatistics(timeline, overall_severity)
        recommended_action == get_recommended_action(overall_severity)
    IN  [overall_severity_score |-> overall_severity,
         recommended_action     |-> recommended_action,
         component_scores       |-> [crack_density_score |-> crack_score,
                                     depth_score         |-> depth_score,
                                     damage_type_score   |-> damage_type_score],
         severity_timeline      |-> timeline,
         timeline_statistics    |-> statistics,
         input_metrics          |-> [average_crack_density |-> avg_crack_density,
                                     max_depth_mm          |-> max_depth_mm,
                                     damage_types          |-> damage_types]]

RESULTS_FILE == "severity_analysis_results.json"

(***************************************************************************)
(* json.dump / json.load.  A JSON document is a tagged tree; an object     *)
(* keeps its members in the insertion order of the dict it was made from.  *)
(***************************************************************************)
JsonNumber(x)       == <<"number", x>>
JsonString(x)       == <<"string", x>>
JsonArray(items)    == <<"array", items>>
JsonObject(members) == <<"object", members>>

\* the value of member key of a JSON object
Member(object, key) ==
    LET members == object[2]
        i == CHOOSE j \in DOMAIN members : members[j][1] = key
    IN  members[i][2]

JsonStrings(list) == JsonArray([i \in DOMAIN list |-> JsonString(list[i])])

JsonTimelinePoint(point) ==
    JsonObject(<< <<"rotation_angle",      JsonNumber(point.rotation_angle)>>,
                  <<"severity",            JsonNumber(point.severity)>>,
                  <<"crack_density_score", JsonNumber(point.crack_density_score)>>,
                  <<"depth_score",         JsonNumber(point.depth_score)>>,
                  <<"damage_type_score",   JsonNumber(point.damage_type_score)>> >>)

\* json.dump(severity_analysis, f, indent=2)
json_dump(severity_analysis) ==
    LET scores     == severity_analysis.component_scores
        timeline   == severity_analysis.severity_timeline
        statistics == severity_analysis.timeline_statistics
        metrics    == severity_analysis.input_metrics
    IN  JsonObject(<<
          <<"overall_severity_score", JsonNumber(severity_analysis.overall_severity_score)>>,
          <<"recommended_action",     JsonString(severity_analysis.recommended_action)>>,
          <<"component_scores", JsonObject(<<
              <<"crack_density_score", JsonNumber(scores.crack_density_score)>>,
              <<"depth_score",         JsonNumber(scores.depth_score)>>,
              <<"damage_type_score",   JsonNumber(scores.damage_type_score)>> >>)>>,
          <<"severity_timeline",
              JsonArray([i \in DOMAIN timeline |-> JsonTimelinePoint(timeline[i])])>>,
          <<"timeline_statistics", JsonObject(<<
              <<"max_severity",     JsonNumber(statistics.max_severity)>>,
              <<"min_severity",     JsonNumber(statistics.min_severity)>>,
              <<"average_severity", JsonNumber(statistics.average_severity)>> >>)>>,
          <<"input_metrics", JsonObject(<<
              <<"average_crack_density", JsonNumber(metrics.average_crack_density)>>,
              <<"max_depth_mm",          JsonNumber(metrics.max_depth_mm)>>,
              <<"damage_types",          JsonStrings(metrics.damage_types)>> >>)>> >>)

\* json.load of a document of that shape
json_load(document) ==
    LET Number(object, key) == Member(object, key)[2]
        scores     == Member(document, "component_scores")
        timeline   == Member(document, "severity_timeline")[2]
        statistics == Member(document, "timeline_statistics")
        metrics    == Member(document, "input_metrics")
        types      == Member(metrics, "damage_types")[2]
    IN  [overall_severity_score |-> Number(document, "overall_severity_score"),
         recommended_action     |-> Member(document, "recommended_action")[2],
         component_scores       |-> [crack_density_score |-> Number(scores, "crack_density_score"),
                                     depth_score         |-> Number(scores, "depth_score"),
                                     damage_type_score   |-> Number(scores, "damage_type_score")],
         severity_timeline      |-> [i \in DOMAIN timeline |->
                                     [rotation_angle      |-> Number(timeline[i], "rotation_angle"),
                                      severity            |-> Number(timeline[i], "severity"),
                                      crack_density_score |-> Number(timeline[i], "crack_density_score"),
                                      depth_score         |-> Number(timeline[i], "depth_score"),
                                      damage_type_score   |-> Number(timeline[i], "damage_type_score")]],
         timeline_statistics    |-> [max_severity     |-> Number(statistics, "max_severity"),
                                     min_severity     |-> Number(statistics, "min_severity"),
                                     average_severity |-> Number(statistics, "average_severity")],
         input_metrics          |-> [average_crack_density |-> Number(metrics, "average_crack_density"),
                                     max_depth_mm          |-> Number(metrics, "max_depth_mm"),
                                     damage_types          |-> [i \in DOMAIN types |-> types[i][2]]]]

\* faulty variant: a file that exists is left as it is
WriteFile_keep_existing(directory, name, document) == directory @@ (name :> document)

\* open(path, 'w') and the dump into it: the file is created or replaced
WriteFile(directory, name, document) == (name :> document) @@ directory

(***************************************************************************)
(* The aggregation of the damage classifier (damage_classifier.py,         *)
(* DamageClassifier.analyze_video_damage_classification).  A frame of the  *)
(* video is [loaded, damage_types]: whether its image and its crack map    *)
(* could be read, and what classify_damage finds in it.                    *)
(***************************************************************************)
\* the values of enum DamageType, in the order of its definition
DamageType == <<"blistering", "micro-cracks", "grain", "cuts", "flat-spots", "chunking">>

DAMAGE_CLASSIFICATION_FILE == "damage_classification_results.json"

analyze_frame_damage(frame_index, frame) ==
    [frame_index      |-> frame_index,
     damage_types     |-> frame.damage_types,
     num_damage_types |-> Len(frame.damage_types)]

\* the loop over enumerate(damaged_frames): frames that cannot be read are
\* skipped, the others are analysed under their index i
RECURSIVE AnalyzedFrames(_, _)
AnalyzedFrames(frames, n) ==
    IF n = 0 THEN <<>>
    ELSE IF frames[n].loaded
         THEN Append(AnalyzedFrames(frames, n - 1), analyze_frame_damage(n - 1, frames[n]))
         ELSE AnalyzedFrames(frames, n - 1)

\* how often damage_type was counted: once for each entry of a frame's list
RECURSIVE DamageTypeCount(_, _, _)
DamageTypeCount(frame_results, n, damage_type) ==
    IF n = 0 THEN 0
    ELSE DamageTypeCount(frame_results, n - 1, damage_type)
         + Cardinality({k \in DOMAIN frame_results[n].damage_types :
                            frame_results[n].damage_types[k] = damage_type})

\* threshold = len(frame_results) * 0.2
DetectionThreshold(frame_results) == QMul(QInt(Len(frame_results)), Q(2, 10))

\* faulty variant: one frame with the damage type is enough
ReachesThreshold_any_frame(count, threshold) == count >= 1

\* count >= threshold
ReachesThreshold(count, threshold) == QLe(threshold, QInt(count))

\* the analysis_results dict compiled by analyze_video_damage_classification
DamageClassification(frames) ==
    LET frame_results == AnalyzedFrames(frames, Len(frames))
        damage_type_counts ==
            [i \in DOMAIN DamageType |->
                DamageTypeCount(frame_results, Len(frame_results), DamageType[i])]
        threshold == DetectionThreshold(frame_results)
        Present(damage_type) ==
            \E i \in DOMAIN DamageType :
                /\ DamageType[i] = damage_type
                /\ ReachesThreshold(damage_type_counts[i], threshold)
    IN  [total_frames_analyzed    |-> Len(frame_results),
         detected_damage_types    |-> SelectSeq(DamageType, Present),
         damage_type_frame_counts |-> damage_type_counts,
         frame_results            |-> frame_results]

\* json.dump(analysis_results, f, indent=2)
json_dump_classification(analysis_results) ==
    LET counts  == analysis_results.damage_type_frame_counts
        results == analysis_results.frame_results
    IN  JsonObject(<<
          <<"total_frames_analyzed", JsonNumber(analysis_results.total_frames_analyzed)>>,
          <<"detected_damage_types", JsonStrings(analysis_results.detected_damage_types)>>,
          <<"damage_type_frame_counts",
              JsonObject([i \in DOMAIN DamageType |-> <<DamageType[i], JsonNumber(counts[i])>>])>>,
          <<"frame_results",
              JsonArray([j \in DOMAIN results |-> JsonObject(<<
                  <<"frame_index",      JsonNumber(results[j].frame_index)>>,
                  <<"damage_types",     JsonStrings(results[j].damage_types)>>,
                  <<"num_damage_types", JsonNumber(results[j].num_damage_types)>> >>)])>> >>)

(***************************************************************************)
(* Inputs the operations are exercised on.                                 *)
(***************************************************************************)
SeqsUpTo(S, k) == UNION {[1..m -> S] : m \in 0..k}

Labels == {"blistering", "micro-cracks", "grain", "cuts", "flat-spots",
           "chunking", "delamination"}     \* the last one is not in the table

LabelLists == SeqsUpTo(Labels, MaxLabels)
ExtraLists == SeqsUpTo(Labels, MaxExtra)

\* crack densities (%) and depths (mm), as in the tests and around the ceilings
Densities == {Zero, QInt(1), Q(25, 10), QInt(3), QInt(4), QInt(8), QInt(10), QInt(15)}
Depths    == {Zero, Q(5, 10), Q(8, 10), QInt(2), Q(25, 10), Q(45, 10), QInt(5), QInt(10)}
ScoreLists == SeqsUpTo(Labels, 1) \cup
              { <<"micro-cracks", "grain">>, <<"chunking", "cuts">>,
                <<"cuts", "chunking", "flat-spots">> }

\* scores handed to get_recommended_action, around both thresholds
Scores == {Zero, QInt(30), Q(499, 10), Q(49999, 1000), QInt(50), QInt(65),
           QInt(80), Q(80001, 1000), Q(801, 10), QInt(95), Hundred}

\* per-frame dicts of the three analyses
CrackFrames  == {[frame_index |-> k, crack_density |-> v] :
                    k \in {0, 5}, v \in {QInt(1), QInt(8)}}
DepthFrames  == {[max_depth_mm |-> v] : v \in {Q(8, 10), Q(45, 10)}}
DamageFrames == {[damage_types |-> t] : t \in {<<>>, <<"chunking", "grain">>}}

\* result dicts for generate_severity_timeline; frame_results may be absent
WithFrames(aggregate, frames) ==
    {aggregate} \cup {aggregate @@ [frame_results |-> f] : f \in SeqsUpTo(frames, MaxFrames)}

TimelineCrackResults  == WithFrames([average_crack_density |-> Q(25, 10)], CrackFrames)
TimelineDepthResults  == WithFrames([max_depth_estimate_mm |-> Q(35, 10)], DepthFrames)
TimelineDamageResults == WithFrames([detected_damage_types |-> <<"micro-cracks">>], DamageFrames)

\* result dicts for calculate_overall_severity
OverallCrackFrames == {[crack_density |-> v] : v \in {QInt(1), QInt(8)}}
OverallCrackResults ==
    UNION {WithFrames([average_crack_density |-> a], OverallCrackFrames) :
              a \in {QInt(1), QInt(5), QInt(10)}}
OverallDepthResults ==
    UNION {WithFrames([max_depth_estimate_mm |-> m], DepthFrames) :
              m \in {Q(8, 10), QInt(5)}}
OverallDamageResults ==
    UNION {WithFrames([detected_damage_types |-> t], DamageFrames) :
              t \in {<<>>, <<"grain">>, <<"chunking", "grain">>}}

\* the fixtures of test_severity_calculator.py, cut to their first k frames
MockFrames == 10

MockCrackResults(k) ==
    [average_crack_density |-> Q(25, 10),
     frame_results |-> [j \in 1..k |->
        [frame_index |-> j - 1, crack_density |-> Q(20 + 3 * (j - 1), 10)]]]

MockDepthResults(k) ==
    [max_depth_estimate_mm |-> Q(35, 10),
     frame_results |-> [j \in 1..k |->
        [frame_index |-> j - 1, max_depth_mm |-> Q(25 + 2 * (j - 1), 10)]]]

MockDamageResults(k) ==
    [detected_damage_types |-> <<"micro-cracks", "grain", "cuts">>,
     frame_results |-> [j \in 1..k |->
        [frame_index  |-> j - 1,
         damage_types |-> IF (j - 1) % 2 = 0 THEN <<"micro-cracks", "grain">>
                          ELSE <<"cuts">>]]]

MockResults ==
    << MockCrackResults(MockFrames), MockDepthResults(MockFrames),
       MockDamageResults(MockFrames) >>

\* the same with 5, 10 and 8 frames
MismatchedResults ==
    << MockCrackResults(MockFrames \div 2), MockDepthResults(MockFrames),
       MockDamageResults(MockFrames - 2) >>

\* values and ceilings handed to the two normalisations
NormalizeValues == Densities \cup Depths \cup {Q(-1, 1), QInt(20)}
Ceilings        == {Zero, QInt(5), QInt(10), QInt(20)}
NormalizeArgs   == {<<v>> : v \in NormalizeValues} \cup (NormalizeValues \X Ceilings)

\* the three scenarios of test_severity_interpretation: no frames at all
Scenario(crack_density, depth_mm, damage_types) ==
    << [average_crack_density |-> crack_density, frame_results |-> <<>>],
       [max_depth_estimate_mm |-> depth_mm,      frame_results |-> <<>>],
       [detected_damage_types |-> damage_types,  frame_results |-> <<>>] >>

MinorDamage    == Scenario(QInt(1), Q(8, 10), <<"grain">>)
ModerateDamage == Scenario(QInt(4), Q(25, 10), <<"micro-cracks", "grain">>)
SevereDamage   == Scenario(QInt(8), Q(45, 10), <<"cuts", "chunking", "flat-spots">>)
ScenarioResults == {MinorDamage, ModerateDamage, SevereDamage}

\* result dicts with fields missing: no field at all, a frame without
\* fields, and an aggregate with a frame that lacks the measurement
SparseCrackResults ==
    { EmptyDict, [frame_results |-> <<EmptyDict>>],
      [average_crack_density |-> QInt(4), frame_results |-> <<[frame_index |-> 0]>>] }
SparseDepthResults ==
    { EmptyDict, [frame_results |-> <<EmptyDict>>],
      [max_depth_estimate_mm |-> Q(25, 10), frame_results |-> <<[frame_index |-> 0]>>] }
SparseDamageResults ==
    { EmptyDict, [frame_results |-> <<EmptyDict>>],
      [detected_damage_types |-> <<"cuts">>, frame_results |-> <<[frame_index |-> 0]>>] }
SparseResults == SparseCrackResults \X SparseDepthResults \X SparseDamageResults

\* inputs of the calls made one after the other on one output_dir
SequenceInputs == ScenarioResults \cup SparseResults \cup {MockResults, MismatchedResults}

\* frames of a video: unreadable, sound, cut, or cut and grained
VideoFrames ==
    { [loaded |-> FALSE, damage_types |-> <<>>],
      [loaded |-> TRUE,  damage_types |-> <<>>],
      [loaded |-> TRUE,  damage_types |-> <<"cuts">>],
      [loaded |-> TRUE,  damage_types |-> <<"grain", "cuts">>] }
Videos == SeqsUpTo(VideoFrames, MaxVideoFrames)

vars == <<op, args, pc, ret, files, class_attrs, writes, returns,
          jobs, tasks, disk, response>>

\* the state of the service
service == <<jobs, tasks, disk, response>>

\* no job table, no task, an empty file system, no request yet
NoService ==
    /\ jobs = <<>>
    /\ tasks = <<>>
    /\ disk = <<>>
    /\ response = <<>>

Init ==
    /\ \/ op \in {"normalize_crack_density", "normalize_depth"} /\ args \in NormalizeArgs
       \/ op = "calculate_damage_type_severity" /\ args \in {<<t>> : t \in LabelLists}
       \/ op = "calculate_severity_score"
            /\ args \in Densities \X Depths \X ScoreLists
       \/ op = "get_recommended_action" /\ args \in {<<s>> : s \in Scores}
       \/ op = "generate_severity_timeline"
            /\ args \in (TimelineCrackResults \X TimelineDepthResults \X TimelineDamageResults)
                           \cup SparseResults \cup {MockResults, MismatchedResults}
       \/ op = "analyze_video_damage_classification" /\ args \in {<<v>> : v \in Videos}
       \/ op = "calculate_overall_severity"
            /\ args \in (OverallCrackResults \X OverallDepthResults \X OverallDamageResults)
                           \cup SequenceInputs
    /\ pc = "call"
    /\ ret = <<>>
    /\ files = <<>>
    /\ class_attrs = ClassBody
    /\ writes = 0
    /\ returns = 0
    /\ NoService

Return(value) ==
    /\ ret' = value
    /\ pc' = "done"
    /\ UNCHANGED <<op, args, class_attrs, service>>

\* the call ends with an exception
Raise(exception) ==
    /\ ret' = exception
    /\ pc' = "raised"
    /\ UNCHANGED <<op, args, class_attrs, service>>

\* crack_density / max_density raises when max_density is zero
NormalizeCrackDensity ==
    /\ pc = "call" /\ op = "normalize_crack_density"
    /\ LET max_density == IF Len(args) = 1 THEN DEFAULT_MAX_DENSITY ELSE args[2]
       IN  IF max_density = Zero
           THEN Raise("ZeroDivisionError")
           ELSE Return(normalize_crack_density(args[1], max_density))
    /\ UNCHANGED <<files, writes, returns>>

\* depth_mm / max_depth raises when max_depth is zero
NormalizeDepth ==
    /\ pc = "call" /\ op = "normalize_depth"
    /\ LET max_depth == IF Len(args) = 1 THEN DEFAULT_MAX_DEPTH ELSE args[2]
       IN  IF max_depth = Zero
           THEN Raise("ZeroDivisionError")
           ELSE Return(normalize_depth(args[1], max_depth))
    /\ UNCHANGED <<files, writes, returns>>

CalculateDamageTypeSeverity ==
    /\ pc = "call" /\ op = "calculate_damage_type_severity"
    /\ Return(calculate_damage_type_severity(args[1]))
    /\ UNCHANGED <<files, writes, returns>>

CalculateSeverityScore ==
    /\ pc = "call" /\ op = "calculate_severity_score"
    /\ Return(calculate_severity_score(args[1], args[2], args[3]))
    /\ UNCHANGED <<files, writes, returns>>

GetRecommendedAction ==
    /\ pc = "call" /\ op = "get_recommended_action"
    /\ Return(get_recommended_action(args[1]))
    /\ UNCHANGED <<files, writes, returns>>

GenerateSeverityTimeline ==
    /\ pc = "call" /\ op = "generate_severity_timeline"
    /\ Return(generate_severity_timeline(args[1], args[2], args[3]))
    /\ UNCHANGED <<files, writes, returns>>

\* compiles the analysis, writes it to output_dir and returns it
CalculateOverallSeverity ==
    /\ pc = "call" /\ op = "calculate_overall_severity"
    /\ LET severity_analysis == SeverityAnalysis(args[1], args[2], args[3])
       IN  /\ files' = WriteFile(files, RESULTS_FILE, json_dump(severity_analysis))
           /\ writes' = writes + 1
           /\ returns' = returns + 1
           /\ Return(severity_analysis)

\* raises without frames; otherwise compiles, saves and returns the results
AnalyzeVideoDamageClassification ==
    /\ pc = "call" /\ op = "analyze_video_damage_classification"
    /\ IF Len(args[1]) = 0
       THEN /\ Raise("RuntimeError")
            /\ UNCHANGED files
       ELSE LET analysis_results == DamageClassification(args[1])
            IN  /\ files' = WriteFile(files, DAMAGE_CLASSIFICATION_FILE,
                                      json_dump_classification(analysis_results))
                /\ Return(analysis_results)
    /\ UNCHANGED <<writes, returns>>

Next ==
    \/ NormalizeCrackDensity
    \/ NormalizeDepth
    \/ CalculateDamageTypeSeverity
    \/ CalculateSeverityScore
    \/ GetRecommendedAction
    \/ GenerateSeverityTimeline
    \/ CalculateOverallSeverity
    \/ AnalyzeVideoDamageClassification

Spec == Init /\ [][Next]_vars

(***************************************************************************)
(* Calls of calculate_overall_severity made one after the other by one     *)
(* calculator on one output_dir.                                           *)
(***************************************************************************)
InitSequence ==
    /\ op = "calculate_overall_severity"
    /\ args = <<>>
    /\ pc = "idle"
    /\ ret = <<>>
    /\ files = <<>>
    /\ class_attrs = ClassBody
    /\ writes = 0
    /\ returns = 0
    /\ NoService

\* the caller invokes the method again, with other results
Invoke ==
    /\ pc \in {"idle", "done"}
    /\ returns < MaxInvocations
    /\ args' \in SequenceInputs
    /\ pc' = "call"
    /\ UNCHANGED <<op, ret, files, class_attrs, writes, returns, service>>

NextSequence ==
    \/ Invoke
    \/ CalculateOverallSeverity

SpecSequence == InitSequence /\ [][NextSequence]_vars

(***************************************************************************)
(* The job service (main.py): submissions, status queries and background   *)
(* tasks of the preprocessing, depth estimation and severity calculation   *)
(* jobs.  Handlers and tasks are coroutines of one event loop and contain  *)
(* no await, so each runs from its first to its last statement before any  *)
(* other coroutine; the file system changes at any time.  Python's None is *)
(* <<>> and a value x of an Optional field is <<x>>.                         *)
(***************************************************************************)
None    == <<>>
Some(x) == <<x>>

Kinds == {"preprocess", "depth-estimation", "severity-calculation"}

JobIds == 1..MaxJobs

\* an id no submission ever returned
UnknownJobId == 0

CRACK_RESULTS_PATH  == "crack_detection_results.json"
DEPTH_RESULTS_PATH  == "depth_estimation_results.json"
DAMAGE_RESULTS_PATH == "damage_classification_results.json"
MissingPath         == "/non/existent/path"

\* the file system when the service starts: the video, the frame
\* directories and the results of the three analyses
InitialDisk ==
    [path \in {"video.mp4", "reference_frames", "damaged_frames"} |-> "present"]
    @@ (CRACK_RESULTS_PATH  :> SevereDamage[1])
    @@ (DEPTH_RESULTS_PATH  :> SevereDamage[2])
    @@ (DAMAGE_RESULTS_PATH :> SevereDamage[3])

\* the paths a request must name, in the order the handler checks them
Request(kind, paths) == [kind |-> kind, paths |-> paths, output_dir |-> "output"]

Requests ==
    { Request("preprocess", <<"video.mp4">>),
      Request("preprocess", <<MissingPath>>),
      Request("depth-estimation", <<"reference_frames", "damaged_frames">>),
      Request("depth-estimation", <<MissingPath, "damaged_frames">>),
      Request("depth-estimation", <<"reference_frames", MissingPath>>),
      Request("severity-calculation",
              <<CRACK_RESULTS_PATH, DEPTH_RESULTS_PATH, DAMAGE_RESULTS_PATH>>),
      Request("severity-calculation",
              <<MissingPath, DEPTH_RESULTS_PATH, DAMAGE_RESULTS_PATH>>),
      Request("severity-calculation",
              <<CRACK_RESULTS_PATH, DEPTH_RESULTS_PATH, MissingPath>>) }

\* files that may disappear while the service runs
Removable == {CRACK_RESULTS_PATH, DEPTH_RESULTS_PATH, DAMAGE_RESULTS_PATH}

\* os.path.exists
Exists(path) == path \in DOMAIN disk

\* faulty variant: the record starts out as processing
QueuedJob_processing ==
    [status |-> "processing", progress |-> Q(1, 10), metadata |-> None, error |-> None]

\* the record a submission stores for its job
QueuedJob == [status |-> "queued", progress |-> Zero, metadata |-> None, error |-> None]

\* the job table of a kind
JobTable(kind) == Get(jobs, kind, EmptyDict)

\* jobs[kind][job_id][field] = value
SetJobField(kind, job_id, field, value) ==
    (kind :> [JobTable(kind) EXCEPT ![job_id][field] = value]) @@ jobs

\* str(uuid.uuid4()): an id never handed out before
NewJobId == 1 + Cardinality(DOMAIN tasks)

\* faulty variant: tasks run beside the handlers, as threads would
EventLoopFree_preemptive == TRUE

\* no coroutine is in the middle of its statements
EventLoopFree ==
    \A job_id \in DOMAIN tasks : tasks[job_id].pc \in {"scheduled", "finished"}

InitJobs ==
    /\ op = "service"
    /\ args = <<>>
    /\ pc = "idle"
    /\ ret = <<>>
    /\ files = <<>>
    /\ class_attrs = ClassBody
    /\ writes = 0
    /\ returns = 0
    /\ jobs = <<>>
    /\ tasks = <<>>
    /\ disk = InitialDisk
    /\ response = <<>>

core == <<op, args, pc, ret, files, class_attrs, returns>>

\* faulty variant: the record is stored before the paths are checked
Reject_after_record(request, detail) ==
    /\ response' = [request |-> request, status_code |-> 404, detail |-> detail]
    /\ jobs' = (request.kind :> ((NewJobId :> QueuedJob) @@ JobTable(request.kind))) @@ jobs
    /\ UNCHANGED tasks

\* raise HTTPException(status_code=404, ...): nothing is stored or scheduled
Reject(request, detail) ==
    /\ response' = [request |-> request, status_code |-> 404, detail |-> detail]
    /\ UNCHANGED <<jobs, tasks>>

\* the record is stored, the task is scheduled, the job_id is returned
Accept(request) ==
    LET job_id == NewJobId
    IN  /\ jobs' = (request.kind :> ((job_id :> QueuedJob) @@ JobTable(request.kind))) @@ jobs
        /\ tasks' = (job_id :> [kind |-> request.kind, request |-> request,
                                pc |-> "scheduled", loaded |-> <<>>,
                                metadata |-> None, exception |-> None]) @@ tasks
        /\ response' = [request |-> request, status_code |-> 200,
                        job_id |-> job_id, status |-> "queued"]

\* POST /preprocess, /depth-estimation, /severity-calculation
SubmitJob ==
    /\ EventLoopFree
    /\ Cardinality(DOMAIN tasks) < MaxJobs
    /\ \E request \in Requests :
          LET missing == {k \in DOMAIN request.paths : ~Exists(request.paths[k])}
          IN  IF missing # {}
              THEN Reject(request,
                          request.paths[CHOOSE k \in missing : \A m \in missing : k <= m])
              ELSE Accept(request)
    /\ UNCHANGED <<core, writes, disk>>

\* GET /<kind>/status/{job_id}
GetStatus ==
    /\ EventLoopFree
    /\ \E kind \in Kinds, job_id \in JobIds \cup {UnknownJobId} :
          LET request == [kind |-> kind, status_of |-> job_id]
          IN  response' =
                IF job_id \notin DOMAIN JobTable(kind)
                THEN [request |-> request, status_code |-> 404, detail |-> "Job not found"]
                ELSE LET job == JobTable(kind)[job_id]
                     IN  [request |-> request, status_code |-> 200, job_id |-> job_id,
                          status |-> job.status, progress |-> job.progress,
                          metadata |-> job.metadata, error |-> job.error]
    /\ UNCHANGED <<core, writes, jobs, tasks, disk>>

\* a results file is removed behind the back of the service
RemoveFile ==
    /\ \E path \in Removable \cap DOMAIN disk :
          disk' = [p \in DOMAIN disk \ {path} |-> disk[p]]
    /\ response' = <<>>
    /\ UNCHANGED <<core, writes, jobs, tasks>>

\* the task of job_id goes on at label next, with its locals changed
Goto(job_id, next, local, value) ==
    tasks' = [tasks EXCEPT ![job_id] = [@ EXCEPT !.pc = next, ![local] = value]]

\* faulty variant: no handler, the exception ends the task
OnException_uncaught(job_id, exception) ==
    Goto(job_id, "finished", "exception", Some(exception))

\* except Exception as e:
OnException(job_id, exception) ==
    Goto(job_id, "except", "exception", Some(exception))

\* jobs[job_id]["status"] = "processing"
TaskSetProcessing(job_id) ==
    /\ tasks[job_id].pc = "scheduled"
    /\ EventLoopFree
    /\ jobs' = SetJobField(tasks[job_id].kind, job_id, "status", "processing")
    /\ Goto(job_id, "progress", "loaded", <<>>)
    /\ UNCHANGED <<writes, disk>>

\* jobs[job_id]["progress"] = 0.1
TaskSetProgress(job_id) ==
    /\ tasks[job_id].pc = "progress"
    /\ jobs' = SetJobField(tasks[job_id].kind, job_id, "progress", Q(1, 10))
    /\ Goto(job_id, IF tasks[job_id].kind = "severity-calculation" THEN "load" ELSE "compute",
            "loaded", <<>>)
    /\ UNCHANGED <<writes, disk>>

\* with open(path, 'r') as f: results = json.load(f), for the next of the
\* three paths
TaskLoadResults(job_id) ==
    /\ tasks[job_id].pc = "load"
    /\ LET task == tasks[job_id]
           path == task.request.paths[Len(task.loaded) + 1]
       IN  IF ~Exists(path)
           THEN OnException(job_id, [type |-> "FileNotFoundError", message |-> path])
           ELSE Goto(job_id,
                     IF Len(task.loaded) + 1 = Len(task.request.paths) THEN "compute" ELSE "load",
                     "loaded", Append(task.loaded, disk[path]))
    /\ UNCHANGED <<writes, jobs, disk>>

\* metadata = calculate_severity_score(...): the report is compiled, saved in
\* output_dir and returned
TaskCalculateSeverity(job_id) ==
    /\ tasks[job_id].pc = "compute"
    /\ tasks[job_id].kind = "severity-calculation"
    /\ LET task == tasks[job_id]
           severity_analysis == SeverityAnalysis(task.loaded[1], task.loaded[2], task.loaded[3])
           output_dir == task.request.output_dir
       IN  /\ disk' = (output_dir :> WriteFile(Get(disk, output_dir, EmptyDict), RESULTS_FILE,
                                               json_dump(severity_analysis))) @@ disk
           /\ writes' = writes + 1
           /\ Goto(job_id, "completed", "metadata", Some(severity_analysis))
    /\ UNCHANGED jobs

\* metadata = preprocess_video_file(...) / estimate_tyre_depth(...): the
\* computation returns its results or raises
TaskCompute(job_id) ==
    /\ tasks[job_id].pc = "compute"
    /\ tasks[job_id].kind # "severity-calculation"
    /\ \/ Goto(job_id, "completed", "metadata", Some([output_dir |-> tasks[job_id].request.output_dir]))
       \/ OnException(job_id, [type |-> "RuntimeError", message |-> "No damaged frames found"])
    /\ UNCHANGED <<writes, jobs, disk>>

\* jobs[job_id]["status"] = "completed"
TaskSetCompleted(job_id) ==
    /\ tasks[job_id].pc = "completed"
    /\ jobs' = SetJobField(tasks[job_id].kind, job_id, "status", "completed")
    /\ Goto(job_id, "progress_done", "loaded", <<>>)
    /\ UNCHANGED <<writes, disk>>

\* jobs[job_id]["progress"] = 1.0
TaskSetProgressDone(job_id) ==
    /\ tasks[job_id].pc = "progress_done"
    /\ jobs' = SetJobField(tasks[job_id].kind, job_id, "progress", One)
    /\ Goto(job_id, "metadata", "loaded", <<>>)
    /\ UNCHANGED <<writes, disk>>

\* jobs[job_id]["metadata"] = metadata
TaskSetMetadata(job_id) ==
    /\ tasks[job_id].pc = "metadata"
    /\ jobs' = SetJobField(tasks[job_id].kind, job_id, "metadata", tasks[job_id].metadata)
    /\ Goto(job_id, "finished", "loaded", <<>>)
    /\ UNCHANGED <<writes, disk>>

\* faulty variant: the handler leaves the status as it is
TaskSetFailed_keeps_status(job_id) ==
    /\ tasks[job_id].pc = "except"
    /\ Goto(job_id, "error", "loaded", <<>>)
    /\ UNCHANGED <<writes, jobs, disk>>

\* jobs[job_id]["status"] = "failed"
TaskSetFailed(job_id) ==
    /\ tasks[job_id].pc = "except"
    /\ jobs' = SetJobField(tasks[job_id].kind, job_id, "status", "failed")
    /\ Goto(job_id, "error", "loaded", <<>>)
    /\ UNCHANGED <<writes, disk>>

\* faulty variant: the handler also resets the progress
TaskSetError_resets_progress(job_id) ==
    /\ tasks[job_id].pc = "error"
    /\ jobs' = (tasks[job_id].kind :>
                    [JobTable(tasks[job_id].kind) EXCEPT
                        ![job_id]["error"] = Some(tasks[job_id].exception[1].message),
                        ![job_id]["progress"] = Zero]) @@ jobs
    /\ Goto(job_id, "finished", "loaded", <<>>)
    /\ UNCHANGED <<writes, disk>>

\* jobs[job_id]["error"] = str(e)
TaskSetError(job_id) ==
    /\ tasks[job_id].pc = "error"
    /\ jobs' = SetJobField(tasks[job_id].kind, job_id, "error",
                           Some(tasks[job_id].exception[1].message))
    /\ Goto(job_id, "finished", "loaded", <<>>)
    /\ UNCHANGED <<writes, disk>>

\* the next statement of the background task of job_id
RunTask(job_id) ==
    /\ job_id \in DOMAIN tasks
    /\ \/ TaskSetProcessing(job_id)
       \/ TaskSetProgress(job_id)
       \/ TaskLoadResults(job_id)
       \/ TaskCalculateSeverity(job_id)
       \/ TaskCompute(job_id)
       \/ TaskSetCompleted(job_id)
       \/ TaskSetProgressDone(job_id)
       \/ TaskSetMetadata(job_id)
       \/ TaskSetFailed(job_id)
       \/ TaskSetError(job_id)
    /\ response' = <<>>
    /\ UNCHANGED core

NextJobs ==
    \/ SubmitJob
    \/ GetStatus
    \/ RemoveFile
    \/ \E job_id \in JobIds : RunTask(job_id)

SpecJobs == InitJobs /\ [][NextJobs]_vars

\* the task of job_id has a next statement the event loop can run: this is
\* ENABLED <<RunTask(job_id)>>_vars written out, a task being held back only
\* before its first statement, while another coroutine has the event loop
Runnable(job_id) ==
    /\ job_id \in DOMAIN tasks
    /\ tasks[job_id].pc # "finished"
    /\ tasks[job_id].pc = "scheduled" => EventLoopFree

\* weak fairness of RunTask(job_id), WF_vars(RunTask(job_id)) with its
\* ENABLED written out: a task that stays runnable is run
TaskFairness(job_id) ==
    []<>(~Runnable(job_id)) \/ []<><<RunTask(job_id)>>_vars

\* every scheduled task is eventually run, statement after statement
FairSpecJobs == SpecJobs /\ \A job_id \in JobIds : TaskFairness(job_id)

(***************************************************************************)
(* Concurrent invocations.  Several tasks call the convenience function    *)
(* calculate_severity_score side by side, each with its own results and    *)
(* output_dir; the statements of the calls interleave freely.  tasks holds *)
(* the arguments, the position and the local variables of each call, disk  *)
(* the output directories.                                                 *)
(***************************************************************************)
TaskIds == 1..MaxTasks

\* the results handed to the concurrent calls
ConcurrentInputs == ScenarioResults \cup {MockResults}

\* faulty variant: every task is given the same output_dir
OutputDir_shared(task) == "output"

\* the output_dir of a task: no two tasks share one
OutputDir(task) == "output_" \o ToString(task)

\* a call that has not started: the arguments, and no local variable yet
NewCall(crack_results, depth_results, damage_results, output_dir) ==
    [args |-> <<crack_results, depth_results, damage_results>>,
     output_dir |-> output_dir, pc |-> "construct", locals |-> EmptyDict, ret |-> None]

InitConcurrent ==
    /\ op = "calculate_severity_score"
    /\ args = <<>>
    /\ pc = "tasks"
    /\ ret = <<>>
    /\ files = <<>>
    /\ class_attrs = ClassBody
    /\ writes = 0
    /\ returns = 0
    /\ jobs = <<>>
    /\ response = <<>>
    /\ disk = <<>>
    /\ \E inputs \in [TaskIds -> ConcurrentInputs] :
          tasks = [task \in TaskIds |->
                      NewCall(inputs[task][1], inputs[task][2], inputs[task][3], OutputDir(task))]

\* the task goes on at label next, having bound the local variables in bound
Step(task, next, bound) ==
    /\ tasks' = [tasks EXCEPT ![task] = [@ EXCEPT !.pc = next, !.locals = bound @@ @]]
    /\ UNCHANGED <<op, args, pc, ret, files, class_attrs, returns, jobs, response>>

\* calculator = SeverityCalculator(output_dir): mkdir(parents=True, exist_ok=True)
Construct(task) ==
    /\ tasks[task].pc = "construct"
    /\ disk' = IF tasks[task].output_dir \in DOMAIN disk
               THEN disk
               ELSE (tasks[task].output_dir :> EmptyDict) @@ disk
    /\ Step(task, "extract", EmptyDict)
    /\ UNCHANGED writes

\* avg_crack_density, max_depth_mm, damage_types = ... .get(..., default)
ExtractMetrics(task) ==
    /\ tasks[task].pc = "extract"
    /\ Step(task, "score",
            [avg_crack_density |-> Get(tasks[task].args[1], "average_crack_density", Zero),
             max_depth_mm      |-> Get(tasks[task].args[2], "max_depth_estimate_mm", Zero),
             damage_types      |-> Get(tasks[task].args[3], "detected_damage_types", <<>>)])
    /\ UNCHANGED <<writes, disk>>

\* overall_severity = self.calculate_severity_score(...)
ScoreOverall(task) ==
    /\ tasks[task].pc = "score"
    /\ LET l == tasks[task].locals
       IN  Step(task, "components",
                [overall_severity |->
                    calculate_severity_score(l.avg_crack_density, l.max_depth_mm, l.damage_types)])
    /\ UNCHANGED <<writes, disk>>

\* crack_score, depth_score, damage_type_score = ... * 100.0
ScoreComponents(task) ==
    /\ tasks[task].pc = "components"
    /\ LET l == tasks[task].locals
       IN  Step(task, "timeline",
                [crack_score |->
                    QMul(normalize_crack_density(l.avg_crack_density, DEFAULT_MAX_DENSITY), Hundred),
                 depth_score |->
                    QMul(normalize_depth(l.max_depth_mm, DEFAULT_MAX_DEPTH), Hundred),
                 damage_type_score |->
                    QMul(calculate_damage_type_severity(l.damage_types), Hundred)])
    /\ UNCHANGED <<writes, disk>>

\* timeline = self.generate_severity_timeline(...)
GenerateTimeline(task) ==
    /\ tasks[task].pc = "timeline"
    /\ Step(task, "statistics",
            [timeline |-> generate_severity_timeline(tasks[task].args[1], tasks[task].args[2],
                                                     tasks[task].args[3])])
    /\ UNCHANGED <<writes, disk>>

\* max_, min_, avg_timeline_severity and recommended_action
SummariseTimeline(task) ==
    /\ tasks[task].pc = "statistics"
    /\ LET l == tasks[task].locals
       IN  Step(task, "compile",
                [statistics         |-> TimelineStatistics(l.timeline, l.overall_severity),
                 recommended_action |-> get_recommended_action(l.overall_severity)])
    /\ UNCHANGED <<writes, disk>>

\* severity_analysis = {...}
Compile(task) ==
    /\ tasks[task].pc = "compile"
    /\ LET l == tasks[task].locals
       IN  Step(task, "save",
                [severity_analysis |->
                    [overall_severity_score |-> l.overall_severity,
                     recommended_action     |-> l.recommended_action,
                     component_scores       |-> [crack_density_score |-> l.crack_score,
                                                 depth_score         |-> l.depth_score,
                                                 damage_type_score   |-> l.damage_type_score],
                     severity_timeline      |-> l.timeline,
                     timeline_statistics    |-> l.statistics,
                     input_metrics          |-> [average_crack_density |-> l.avg_crack_density,
                                                 max_depth_mm          |-> l.max_depth_mm,
                                                 damage_types          |-> l.damage_types]]])
    /\ UNCHANGED <<writes, disk>>

\* with open(results_path, 'w') as f: json.dump(severity_analysis, f, indent=2)
Save(task) ==
    /\ tasks[task].pc = "save"
    /\ LET output_dir == tasks[task].output_dir
       IN  disk' = (output_dir :> WriteFile(disk[output_dir], RESULTS_FILE,
                                            json_dump(tasks[task].locals.severity_analysis)))
                   @@ disk
    /\ writes' = writes + 1
    /\ Step(task, "return", EmptyDict)

\* return severity_analysis
ReturnAnalysis(task) ==
    /\ tasks[task].pc = "return"
    /\ tasks' = [tasks EXCEPT ![task] =
                    [@ EXCEPT !.pc = "done",
                               !.ret = Some(tasks[task].locals.severity_analysis)]]
    /\ UNCHANGED <<op, args, pc, ret, files, class_attrs, writes, jobs, disk, response>>
    /\ returns' = returns + 1

\* the next statement of the call of a task
Call(task) ==
    \/ Construct(task)
    \/ ExtractMetrics(task)
    \/ ScoreOverall(task)
    \/ ScoreComponents(task)
    \/ GenerateTimeline(task)
    \/ SummariseTimeline(task)
    \/ Compile(task)
    \/ Save(task)
    \/ ReturnAnalysis(task)

NextConcurrent == \E task \in TaskIds : Call(task)

SpecConcurrent == InitConcurrent /\ [][NextConcurrent]_vars

(***************************************************************************)
(* Binary64 arithmetic.  Python floats are IEEE 754 doubles; a score is    *)
(* the result of a handful of multiplications, additions and divisions,    *)
(* each rounded to the nearest double, ties to even.  A natural number of  *)
(* any size is a sequence of 15-bit limbs, least significant first,        *)
(* without a leading zero limb; a finite double that is not negative is    *)
(* m * 2^e with 2^52 <= m < 2^53, or zero.                                 *)
(***************************************************************************)
Limb == 2^15

RECURSIVE Trim(_)
Trim(a) == IF Len(a) > 0 /\ a[Len(a)] = 0 THEN Trim(SubSeq(a, 1, Len(a) - 1)) ELSE a

RECURSIVE Big(_)
Big(k) == IF k = 0 THEN <<>> ELSE <<k % Limb>> \o Big(k \div Limb)

LimbAt(a, i) == IF i <= Len(a) THEN a[i] ELSE 0

RECURSIVE AddFrom(_, _, _, _)
AddFrom(a, b, i, carry) ==
    IF i > Len(a) /\ i > Len(b)
    THEN IF carry = 0 THEN <<>> ELSE <<carry>>
    ELSE LET sum == LimbAt(a, i) + LimbAt(b, i) + carry
         IN  <<sum % Limb>> \o AddFrom(a, b, i + 1, sum \div Limb)

BigAdd(a, b) == AddFrom(a, b, 1, 0)

\* a - b for a >= b
RECURSIVE SubFrom(_, _, _, _)
SubFrom(a, b, i, borrow) ==
    IF i > Len(a) THEN <<>>
    ELSE LET difference == Limb + LimbAt(a, i) - LimbAt(b, i) - borrow
         IN  <<difference % Limb>>
             \o SubFrom(a, b, i + 1, IF difference < Limb THEN 1 ELSE 0)

BigSub(a, b) == Trim(SubFrom(a, b, 1, 0))

RECURSIVE LessFrom(_, _, _)
LessFrom(a, b, i) ==
    IF i = 0 THEN FALSE
    ELSE IF a[i] # b[i] THEN a[i] < b[i]
    ELSE LessFrom(a, b, i - 1)

BigLess(a, b) == IF Len(a) # Len(b) THEN Len(a) < Len(b) ELSE LessFrom(a, b, Len(a))

\* a * k for 0 <= k < Limb
RECURSIVE MulSmallFrom(_, _, _, _)
MulSmallFrom(a, k, i, carry) ==
    IF i > Len(a)
    THEN IF carry = 0 THEN <<>> ELSE <<carry>>
    ELSE LET product == a[i] * k + carry
         IN  <<product % Limb>> \o MulSmallFrom(a, k, i + 1, product \div Limb)

MulSmall(a, k) == IF k = 0 THEN <<>> ELSE MulSmallFrom(a, k, 1, 0)

RECURSIVE MulFrom(_, _, _)
MulFrom(a, b, j) ==
    IF j > Len(b) THEN <<>>
    ELSE LET rest == MulFrom(a, b, j + 1)
         IN  BigAdd(MulSmall(a, b[j]), IF rest = <<>> THEN <<>> ELSE <<0>> \o rest)

BigMul(a, b) == MulFrom(a, b, 1)

\* floor(a / k) for 0 < k < Limb, from limb i down, with the remainder brought
\* down from the limbs above
RECURSIVE DivSmallFrom(_, _, _, _)
DivSmallFrom(a, k, i, remainder) ==
    IF i = 0 THEN <<>>
    ELSE LET dividend == remainder * Limb + a[i]
         IN  DivSmallFrom(a, k, i - 1, dividend % k) \o <<dividend \div k>>

\* a * 2^k and floor(a / 2^k)
ShiftLeft(a, k) ==
    IF a = <<>> THEN <<>>
    ELSE [i \in 1..(k \div 15) |-> 0] \o MulSmall(a, 2^(k % 15))

ShiftRight(a, k) ==
    IF Len(a) <= k \div 15 THEN <<>>
    ELSE LET limbs == SubSeq(a, k \div 15 + 1, Len(a))
         IN  Trim(DivSmallFrom(limbs, 2^(k % 15), Len(limbs), 0))

RECURSIVE SmallBitLength(_)
SmallBitLength(k) == IF k = 0 THEN 0 ELSE 1 + SmallBitLength(k \div 2)

BitLength(a) == IF a = <<>> THEN 0 ELSE 15 * (Len(a) - 1) + SmallBitLength(a[Len(a)])

\* long division, k more bits: the remainder is doubled, and d taken off it
\* where it fits
RECURSIVE DivideFrom(_, _, _)
DivideFrom(d, k, division) ==
    IF k = 0 THEN division
    ELSE LET brought == ShiftLeft(division.remainder, 1)
         IN  IF BigLess(brought, d)
             THEN DivideFrom(d, k - 1, [quotient  |-> ShiftLeft(division.quotient, 1),
                                        remainder |-> brought])
             ELSE DivideFrom(d, k - 1, [quotient  |-> BigAdd(ShiftLeft(division.quotient, 1), <<1>>),
                                        remainder |-> BigSub(brought, d)])

\* floor(n * 2^k / d) and what is left over, for n < 2 * d
BigDivMod(n, d, k) ==
    DivideFrom(d, k, IF BigLess(n, d)
                     THEN [quotient |-> <<>>,  remainder |-> n]
                     ELSE [quotient |-> <<1>>, remainder |-> BigSub(n, d)])

Zero64 == [m |-> <<>>, e |-> 0]

\* the double nearest to n * 2^e, or to a value just above it when inexact;
\* ties go to the even mantissa
RoundToDouble(n, e, inexact) ==
    IF n = <<>> THEN Zero64
    ELSE IF BitLength(n) <= 53
    THEN [m |-> ShiftLeft(n, 53 - BitLength(n)), e |-> e - (53 - BitLength(n))]
    ELSE LET excess  == BitLength(n) - 53
             kept    == ShiftRight(n, excess)
             dropped == BigSub(n, ShiftLeft(kept, excess))
             half    == ShiftLeft(<<1>>, excess - 1)
             up      == \/ BigLess(half, dropped)
                        \/ dropped = half /\ (inexact \/ kept[1] % 2 = 1)
             rounded == IF up THEN BigAdd(kept, <<1>>) ELSE kept
         IN  IF BitLength(rounded) = 54
             THEN [m |-> ShiftRight(rounded, 1), e |-> e + excess + 1]
             ELSE [m |-> rounded, e |-> e + excess]

\* float(k) for an int k >= 0
FromInt(k) == RoundToDouble(Big(k), 0, FALSE)

\* a * b
FMul(a, b) ==
    IF a = Zero64 \/ b = Zero64 THEN Zero64
    ELSE RoundToDouble(BigMul(a.m, b.m), a.e + b.e, FALSE)

\* a + b
FAdd(a, b) ==
    IF a = Zero64 THEN b
    ELSE IF b = Zero64 THEN a
    ELSE LET e == IF a.e < b.e THEN a.e ELSE b.e
         IN  RoundToDouble(BigAdd(ShiftLeft(a.m, a.e - e), ShiftLeft(b.m, b.e - e)), e, FALSE)

\* a / b for b # 0: the quotient of the mantissas is taken to 56 bits or
\* more before it is rounded
FDiv(a, b) ==
    IF a = Zero64 THEN Zero64
    ELSE LET division == BigDivMod(a.m, b.m, 57)
         IN  RoundToDouble(division.quotient, a.e - b.e - 57, division.remainder # <<>>)

\* a < b
FLess(a, b) ==
    IF b = Zero64 THEN FALSE
    ELSE IF a = Zero64 THEN TRUE
    ELSE a.e < b.e \/ (a.e = b.e /\ BigLess(a.m, b.m))

\* Python min(a, b): the first argument wins a tie
FMin(a, b) == IF FLess(b, a) THEN b ELSE a

\* the double a decimal literal or JSON number of value q denotes: the one
\* nearest to q
Double(q) == FDiv(FromInt(q.n), FromInt(q.d))

\* |a - b| <= 2^(-k)
Within(a, b, k) ==
    LET e == IF a = Zero64 THEN b.e ELSE IF b = Zero64 THEN a.e
             ELSE IF a.e < b.e THEN a.e ELSE b.e
        x == ShiftLeft(a.m, a.e - e)
        y == ShiftLeft(b.m, b.e - e)
        distance == IF BigLess(x, y) THEN BigSub(y, x) ELSE BigSub(x, y)
    IN  \* distance * 2^e <= 2^(-k)
        IF e + k <= 0
        THEN ~BigLess(ShiftLeft(<<1>>, 0 - e - k), distance)
        ELSE distance = <<>>

(***************************************************************************)
(* The scores in binary64, operation for operation as the methods compute  *)
(* them.  A JSON number or a literal of the class body is the double       *)
(* nearest to its decimal value.                                           *)
(***************************************************************************)
normalize_crack_density_binary64(crack_density, max_density) ==
    FMin(FDiv(crack_density, max_density), FromInt(1))

normalize_depth_binary64(depth_mm, max_depth) ==
    FMin(FDiv(depth_mm, max_depth), FromInt(1))

\* max(severities) picks an entry of the table (or 0.5, or 0.0 for no type):
\* the doubles of the entries are ordered as the entries are
calculate_damage_type_severity_binary64(damage_types) ==
    Double(calculate_damage_type_severity(damage_types))

\* faulty variant: the crack and depth weights exchanged
calculate_severity_score_binary64_swapped_weights(crack_density, depth_mm, damage_types) ==
    LET crack_score       == normalize_crack_density_binary64(crack_density,
                                                              Double(DEFAULT_MAX_DENSITY))
        depth_score       == normalize_depth_binary64(depth_mm, Double(DEFAULT_MAX_DEPTH))
        damage_type_score == calculate_damage_type_severity_binary64(damage_types)
        severity == FAdd(FAdd(FMul(crack_score, Double(class_attrs.DEPTH_WEIGHT)),
                              FMul(depth_score, Double(class_attrs.CRACK_DENSITY_WEIGHT))),
                         FMul(damage_type_score, Double(class_attrs.DAMAGE_TYPE_WEIGHT)))
    IN  FMul(severity, Double(Hundred))

\* severity = crack_score * W1 + depth_score * W2 + damage_type_score * W3,
\* summed from the left; severity_score = severity * 100.0
calculate_severity_score_binary64(crack_density, depth_mm, damage_types) ==
    LET crack_score       == normalize_crack_density_binary64(crack_density,
                                                              Double(DEFAULT_MAX_DENSITY))
        depth_score       == normalize_depth_binary64(depth_mm, Double(DEFAULT_MAX_DEPTH))
        damage_type_score == calculate_damage_type_severity_binary64(damage_types)
        severity == FAdd(FAdd(FMul(crack_score, Double(class_attrs.CRACK_DENSITY_WEIGHT)),
                              FMul(depth_score, Double(class_attrs.DEPTH_WEIGHT))),
                         FMul(damage_type_score, Double(class_attrs.DAMAGE_TYPE_WEIGHT)))
    IN  FMul(severity, Double(Hundred))

\* the component scores: each normalised score * 100.0
ComponentScoresBinary64(crack_density, depth_mm, damage_types) ==
    [crack_density_score |->
        FMul(normalize_crack_density_binary64(crack_density, Double(DEFAULT_MAX_DENSITY)),
             Double(Hundred)),
     depth_score |->
        FMul(normalize_depth_binary64(depth_mm, Double(DEFAULT_MAX_DEPTH)), Double(Hundred)),
     damage_type_score |->
        FMul(calculate_damage_type_severity_binary64(damage_types), Double(Hundred))]

calculate_frame_severity_binary64(crack_density, depth_mm, damage_types) ==
    [severity_score |-> calculate_severity_score_binary64(crack_density, depth_mm, damage_types)]
    @@ ComponentScoresBinary64(crack_density, depth_mm, damage_types)

\* the scores of the severity_analysis dict of calculate_overall_severity
SeverityScoresBinary64(crack_results, depth_results, damage_results) ==
    LET avg_crack_density == Double(Get(crack_results, "average_crack_density", Zero))
        max_depth_mm      == Double(Get(depth_results, "max_depth_estimate_mm", Zero))
        damage_types      == Get(damage_results, "detected_damage_types", <<>>)
    IN  [overall_severity_score |->
            calculate_severity_score_binary64(avg_crack_density, max_depth_mm, damage_types),
         component_scores |->
            ComponentScoresBinary64(avg_crack_density, max_depth_mm, damage_types)]

\* the metrics of a frame, or the aggregate metrics of a video
Binary64Inputs ==
    {<<crack_density, depth_mm, damage_types>> :
        crack_density \in Densities, depth_mm \in Depths, damage_types \in ScoreLists}

InitBinary64 ==
    /\ \/ op = "calculate_frame_severity" /\ args \in Binary64Inputs
       \/ op = "calculate_overall_severity"
            /\ args \in {Scenario(input[1], input[2], input[3]) : input \in Binary64Inputs}
    /\ pc = "call"
    /\ ret = <<>>
    /\ files = <<>>
    /\ class_attrs = ClassBody
    /\ writes = 0
    /\ returns = 0
    /\ NoService

\* a point of the timeline: the frame's metrics are JSON numbers
CalculateFrameSeverityBinary64 ==
    /\ pc = "call" /\ op = "calculate_frame_severity"
    /\ Return(calculate_frame_severity_binary64(Double(args[1]), Double(args[2]), args[3]))
    /\ UNCHANGED <<files, writes, returns>>

\* the headline score and the component scores of the report
CalculateOverallSeverityBinary64 ==
    /\ pc = "call" /\ op = "calculate_overall_severity"
    /\ Return(SeverityScoresBinary64(args[1], args[2], args[3]))
    /\ UNCHANGED <<files, writes, returns>>

NextBinary64 ==
    \/ CalculateFrameSeverityBinary64
    \/ CalculateOverallSeverityBinary64

SpecBinary64 == InitBinary64 /\ [][NextBinary64]_vars

(***************************************************************************)
(* Properties.                                                             *)
(***************************************************************************)
Returned(method) == pc = "done" /\ op = method

Range(s) == {s[i] : i \in DOMAIN s}

\* the weight table as the specification gives it
TableWeight(label) ==
    CASE label = "blistering"   -> Q(70, 100)
      [] label = "micro-cracks" -> Q(50, 100)
      [] label = "grain"        -> Q(40, 100)
      [] label = "cuts"         -> Q(80, 100)
      [] label = "flat-spots"   -> Q(90, 100)
      [] label = "chunking"     -> QInt(1)
      [] OTHER                  -> Q(50, 100)

\* C1: calculate_damage_type_severity returns 0.0 for the empty list and
\* otherwise the maximum of the labels' weights: the weight of one of the
\* labels, and no label of the list weighs more.
C1_MaxOfWeights ==
    Returned("calculate_damage_type_severity") =>
        LET damage_types == args[1]
        IN  IF damage_types = <<>> THEN ret = Zero
            ELSE /\ \E i \in DOMAIN damage_types : ret = TableWeight(damage_types[i])
                 /\ \A i \in DOMAIN damage_types : QLe(TableWeight(damage_types[i]), ret)

C1_Witness ==
    /\ Returned("calculate_damage_type_severity")
    /\ args[1] = <<"grain", "cuts", "micro-cracks">>
    /\ ret = Q(8, 10)

\* C2: extra labels never lower the damage-type severity (appended or
\* prepended), lists with the same set of labels score the same whatever the
\* order and multiplicity, and a list containing chunking scores exactly 1.0.
C2_NeverDiluted ==
    Returned("calculate_damage_type_severity") =>
        LET A == args[1]
        IN  /\ \A B \in ExtraLists :
                /\ QLe(ret, calculate_damage_type_severity(A \o B))
                /\ QLe(ret, calculate_damage_type_severity(B \o A))
            /\ \A L \in LabelLists :
                Range(L) = Range(A) => calculate_damage_type_severity(L) = ret
            /\ "chunking" \in Range(A) => ret = One

C2_Witness ==
    /\ Returned("calculate_damage_type_severity")
    /\ args[1] = <<"grain", "chunking", "grain">>
    /\ ret = One

\* C3: calculate_severity_score(crack_density, depth_mm, damage_types) is
\* 100 * (0.40 * min(crack_density/10, 1) + 0.30 * min(depth_mm/5, 1)
\*        + 0.30 * damage_type_severity(damage_types));
\* score(0, 0, []) = 0.0 and score(10, 5, ['chunking']) = 100.0.
C3_WeightedSum ==
    Returned("calculate_severity_score") =>
        LET crack_density == args[1]
            depth_mm      == args[2]
            damage_types  == args[3]
            cap(x)        == IF QLt(x, One) THEN x ELSE One
        IN  /\ ret = QMul(Hundred,
                        QAdd(QAdd(QMul(Q(40, 100), cap(QDiv(crack_density, QInt(10)))),
                                  QMul(Q(30, 100), cap(QDiv(depth_mm, QInt(5))))),
                             QMul(Q(30, 100), calculate_damage_type_severity(damage_types))))
            /\ (crack_density = Zero /\ depth_mm = Zero /\ damage_types = <<>>) => ret = Zero
            /\ (crack_density = QInt(10) /\ depth_mm = QInt(5) /\ damage_types = <<"chunking">>)
                    => ret = Hundred

C3_Witness ==
    /\ Returned("calculate_severity_score")
    /\ args = <<QInt(10), QInt(5), <<"chunking">> >>
    /\ ret = Hundred

\* C4: get_recommended_action gives replace-immediately exactly for scores
\* above 80, monitor-next-stint exactly for scores from 50 to 80 inclusive,
\* and safe-qualifying-only exactly for scores below 50.
C4_ActionThresholds ==
    Returned("get_recommended_action") =>
        LET score == args[1]
        IN  /\ ret \in {"replace-immediately", "monitor-next-stint", "safe-qualifying-only"}
            /\ ret = "replace-immediately"  <=> QLt(QInt(80), score)
            /\ ret = "monitor-next-stint"   <=> QLe(QInt(50), score) /\ QLe(score, QInt(80))
            /\ ret = "safe-qualifying-only" <=> QLt(score, QInt(50))

C4_Witness ==
    /\ Returned("get_recommended_action")
    /\ args[1] = QInt(80)
    /\ ret = "monitor-next-stint"

FramesOf(results) == Get(results, "frame_results", <<>>)

Least(a, b, c) == IF a <= b /\ a <= c THEN a ELSE IF b <= c THEN b ELSE c

\* the result dict with its frame_results cut to the first n frames
FirstFrames(results, n) ==
    IF "frame_results" \in DOMAIN results
    THEN [results EXCEPT !["frame_results"] = SubSeq(@, 1, n)]
    ELSE results

\* the result dict without its frame_results
WithoutFrames(results) ==
    [k \in DOMAIN results \ {"frame_results"} |-> results[k]]

\* C5: generate_severity_timeline returns exactly min(a, b, c) points for
\* frame sequences of lengths a, b, c; point i is computed from the i-th
\* element of each sequence, whatever its frame_index says; and the elements
\* beyond the shortest length do not influence the result.
C5_PositionalJoin ==
    Returned("generate_severity_timeline") =>
        LET crack_frames  == FramesOf(args[1])
            depth_frames  == FramesOf(args[2])
            damage_frames == FramesOf(args[3])
            n == Least(Len(crack_frames), Len(depth_frames), Len(damage_frames))
            Expected(i) ==
                calculate_frame_severity(Get(crack_frames[i], "crack_density", Zero),
                                         Get(depth_frames[i], "max_depth_mm", Zero),
                                         Get(damage_frames[i], "damage_types", <<>>))
        IN  /\ Len(ret) = n
            /\ \A i \in 1..n :
                /\ ret[i].severity            = Expected(i).severity_score
                /\ ret[i].crack_density_score = Expected(i).crack_density_score
                /\ ret[i].depth_score         = Expected(i).depth_score
                /\ ret[i].damage_type_score   = Expected(i).damage_type_score
            /\ ret = generate_severity_timeline(FirstFrames(args[1], n),
                                                FirstFrames(args[2], n),
                                                FirstFrames(args[3], n))

C5_Witness ==
    /\ Returned("generate_severity_timeline")
    /\ Len(FramesOf(args[1])) = 5
    /\ Len(FramesOf(args[2])) = 10
    /\ Len(FramesOf(args[3])) = 8
    /\ Len(ret) = 5

\* C6: when one of the three frame sequences is empty or absent,
\* generate_severity_timeline returns the empty timeline, whatever the other
\* two contain.
C6_EmptyInputEmptyTimeline ==
    Returned("generate_severity_timeline") =>
        ((\E k \in 1..3 : FramesOf(args[k]) = <<>>) => ret = <<>>)

C6_Witness ==
    /\ Returned("generate_severity_timeline")
    /\ "frame_results" \notin DOMAIN args[1]
    /\ Len(FramesOf(args[2])) >= 2
    /\ Len(FramesOf(args[3])) >= 1
    /\ ret = <<>>

C8_EmptyTimelineFallback ==
    (Returned("calculate_overall_severity") /\ ret.severity_timeline = <<>>) =>
        /\ ret.timeline_statistics.max_severity     = ret.overall_severity_score
        /\ ret.timeline_statistics.min_severity     = ret.overall_severity_score
        /\ ret.timeline_statistics.average_severity = ret.overall_severity_score

C8_Witness ==
    /\ Returned("calculate_overall_severity")
    /\ ret.severity_timeline = <<>>
    /\ ret.overall_severity_score # Zero
    /\ ret.timeline_statistics.average_severity = ret.overall_severity_score

C10_ActionFromOverallScore ==
    Returned("calculate_overall_severity") =>
        /\ ret.recommended_action \in
                {"replace-immediately", "monitor-next-stint", "safe-qualifying-only"}
        /\ ret.recommended_action = get_recommended_action(ret.overall_severity_score)
        /\ ret.recommended_action =
                SeverityAnalysis(WithoutFrames(args[1]), WithoutFrames(args[2]),
                                 WithoutFrames(args[3])).recommended_action

C10_Witness ==
    /\ Returned("calculate_overall_severity")
    /\ ret.recommended_action = "safe-qualifying-only"
    /\ get_recommended_action(ret.timeline_statistics.max_severity) = "replace-immediately"

\* the three aggregate fields of the arguments of calculate_overall_severity
AverageCrackDensity == Get(args[1], "average_crack_density", Zero)
MaxDepthEstimate    == Get(args[2], "max_depth_estimate_mm", Zero)
DetectedDamageTypes == Get(args[3], "detected_damage_types", <<>>)

\* C11: overall_severity_score, component_scores, recommended_action and
\* input_metrics of a report are functions of the three aggregate fields
\* alone: they are computed from average_crack_density,
\* max_depth_estimate_mm and detected_damage_types, and they are those of the
\* report for the same results without their frame_results.
C11_AggregateFieldsOnly ==
    Returned("calculate_overall_severity") =>
        LET bare == SeverityAnalysis(WithoutFrames(args[1]), WithoutFrames(args[2]),
                                     WithoutFrames(args[3]))
        IN  /\ ret.overall_severity_score =
                    calculate_severity_score(AverageCrackDensity, MaxDepthEstimate,
                                             DetectedDamageTypes)
            /\ ret.component_scores =
                    [crack_density_score |->
                        QMul(normalize_crack_density(AverageCrackDensity, QInt(10)), Hundred),
                     depth_score |->
                        QMul(normalize_depth(MaxDepthEstimate, QInt(5)), Hundred),
                     damage_type_score |->
                        QMul(calculate_damage_type_severity(DetectedDamageTypes), Hundred)]
            /\ ret.recommended_action = get_recommended_action(ret.overall_severity_score)
            /\ ret.input_metrics = [average_crack_density |-> AverageCrackDensity,
                                    max_depth_mm          |-> MaxDepthEstimate,
                                    damage_types          |-> DetectedDamageTypes]
            /\ ret.overall_severity_score = bare.overall_severity_score
            /\ ret.component_scores       = bare.component_scores
            /\ ret.recommended_action     = bare.recommended_action
            /\ ret.input_metrics          = bare.input_metrics

\* a report whose frames are all milder or all harsher than the aggregates
C11_Witness ==
    /\ Returned("calculate_overall_severity")
    /\ Len(ret.severity_timeline) >= 2
    /\ \/ QLt(ret.overall_severity_score, ret.timeline_statistics.min_severity)
       \/ QLt(ret.timeline_statistics.max_severity, ret.overall_severity_score)

\* C12: the overall score is not the average of the frames' scores.  A
\* report with a non-empty timeline carries the score of the aggregate fields
\* as overall_severity_score and the mean of the points' severities as
\* average_severity, each unchanged by the other; for the ten-frame results
\* of the tests the two differ.
C12_AggregateIsNotFrameAverage ==
    (Returned("calculate_overall_severity") /\ Len(ret.severity_timeline) >= 1) =>
        LET timeline == ret.severity_timeline
            n        == Len(timeline)
        IN  /\ ret.overall_severity_score =
                    calculate_severity_score(AverageCrackDensity, MaxDepthEstimate,
                                             DetectedDamageTypes)
            /\ QMul(ret.timeline_statistics.average_severity, QInt(n))
                    = SumOfList([j \in 1..n |-> timeline[j].severity])
            /\ args = MockResults =>
                    ret.overall_severity_score # ret.timeline_statistics.average_severity

C12_Witness ==
    /\ Returned("calculate_overall_severity")
    /\ Len(ret.severity_timeline) >= 1
    /\ ret.overall_severity_score # ret.timeline_statistics.average_severity
    /\ json_load(files[RESULTS_FILE]).overall_severity_score = ret.overall_severity_score
    /\ json_load(files[RESULTS_FILE]).timeline_statistics.average_severity
            = ret.timeline_statistics.average_severity

\* min(v / ceiling, 1.0), written out
ClampedRatio(v, ceiling) ==
    IF v.n < ceiling * v.d THEN Q(v.n, v.d * ceiling) ELSE One

\* a normalisation called with its default ceiling, left out or written out
DefaultCeiling(ceiling) == Len(args) = 1 \/ args[2] = QInt(ceiling)

\* C13: with the default ceilings and v >= 0, normalize_crack_density(v) is
\* min(v / 10, 1) and normalize_depth(v) is min(v / 5, 1); the result lies in
\* [0, 1], is 1 for every v at or above the ceiling, and no larger v gives a
\* smaller result.
C13_NormalisationsClamp ==
    /\ (Returned("normalize_crack_density") /\ DefaultCeiling(10) /\ QLe(Zero, args[1])) =>
            /\ ret = ClampedRatio(args[1], 10)
            /\ QLe(Zero, ret) /\ QLe(ret, One)
            /\ QLe(QInt(10), args[1]) => ret = One
            /\ \A w \in NormalizeValues :
                    QLe(args[1], w) => QLe(ret, normalize_crack_density(w, QInt(10)))
    /\ (Returned("normalize_depth") /\ DefaultCeiling(5) /\ QLe(Zero, args[1])) =>
            /\ ret = ClampedRatio(args[1], 5)
            /\ QLe(Zero, ret) /\ QLe(ret, One)
            /\ QLe(QInt(5), args[1]) => ret = One
            /\ \A w \in NormalizeValues :
                    QLe(args[1], w) => QLe(ret, normalize_depth(w, QInt(5)))

C13_Witness ==
    /\ Returned("normalize_depth")
    /\ Len(args) = 1
    /\ args[1] = Q(25, 10)
    /\ ret = Q(1, 2)

\* C14: normalize_crack_density and normalize_depth are total: whatever the
\* value and the ceiling, the call returns a number and never raises.
C14_NormalisationsTotal ==
    op \in {"normalize_crack_density", "normalize_depth"} =>
        /\ pc # "raised"
        /\ pc = "done" => ret \in [n : Int, d : Nat \ {0}]

InScoreRange(x) == QLe(Zero, x) /\ QLe(x, Hundred)

\* the four scores of a timeline point
PointInScoreRange(point) ==
    /\ InScoreRange(point.severity)
    /\ InScoreRange(point.crack_density_score)
    /\ InScoreRange(point.depth_score)
    /\ InScoreRange(point.damage_type_score)

\* C15: for non-negative densities and depths and any label list every score
\* lies in [0, 100]: the result of calculate_severity_score, the overall
\* score and the three component scores of a report, and the severity and
\* the three component scores of every timeline point.
C15_ScoresInRange ==
    /\ Returned("calculate_severity_score") => InScoreRange(ret)
    /\ Returned("generate_severity_timeline") =>
            \A i \in DOMAIN ret : PointInScoreRange(ret[i])
    /\ Returned("calculate_overall_severity") =>
            /\ InScoreRange(ret.overall_severity_score)
            /\ InScoreRange(ret.component_scores.crack_density_score)
            /\ InScoreRange(ret.component_scores.depth_score)
            /\ InScoreRange(ret.component_scores.damage_type_score)
            /\ \A i \in DOMAIN ret.severity_timeline :
                    PointInScoreRange(ret.severity_timeline[i])

\* density and depth beyond their ceilings with the heaviest label: 100
C15_Witness ==
    /\ Returned("calculate_severity_score")
    /\ QLt(QInt(10), args[1])
    /\ QLt(QInt(5), args[2])
    /\ args[3] = <<"chunking">>
    /\ ret = Hundred

\* C16: in every state, before and after every operation, the weights the
\* calculator reads are CRACK_DENSITY_WEIGHT = 0.40, DEPTH_WEIGHT = 0.30 and
\* DAMAGE_TYPE_WEIGHT = 0.30, and their sum is exactly 1.
C16_WeightsFixed ==
    /\ class_attrs.CRACK_DENSITY_WEIGHT = Q(40, 100)
    /\ class_attrs.DEPTH_WEIGHT         = Q(30, 100)
    /\ class_attrs.DAMAGE_TYPE_WEIGHT   = Q(30, 100)
    /\ QAdd(QAdd(class_attrs.CRACK_DENSITY_WEIGHT, class_attrs.DEPTH_WEIGHT),
            class_attrs.DAMAGE_TYPE_WEIGHT) = One

\* the weights after a report has been compiled and written
C16_Witness ==
    /\ Returned("calculate_overall_severity")
    /\ writes = 1
    /\ class_attrs.CRACK_DENSITY_WEIGHT = Q(2, 5)
    /\ class_attrs.DEPTH_WEIGHT = class_attrs.DAMAGE_TYPE_WEIGHT

\* the dict with key written in: its own value, or value when it has none
WrittenIn(dict, key, value) ==
    IF key \in DOMAIN dict THEN dict ELSE (key :> value) @@ dict

\* a result dict with every default written in explicitly
Explicit(results, aggregate_key, aggregate_default, frame_key, frame_default) ==
    LET with_aggregate == WrittenIn(results, aggregate_key, aggregate_default)
        with_frames    == WrittenIn(with_aggregate, "frame_results", <<>>)
    IN  [with_frames EXCEPT !["frame_results"] =
            [i \in DOMAIN @ |-> WrittenIn(@[i], frame_key, frame_default)]]

ExplicitCrack  == Explicit(args[1], "average_crack_density", Zero, "crack_density", Zero)
ExplicitDepth  == Explicit(args[2], "max_depth_estimate_mm", Zero, "max_depth_mm", Zero)
ExplicitDamage == Explicit(args[3], "detected_damage_types", <<>>, "damage_types", <<>>)

\* C17: calculate_overall_severity does not raise on a missing field: an
\* absent average_crack_density or max_depth_estimate_mm counts as 0.0, an
\* absent detected_damage_types or frame_results as the empty list, an absent
\* per-frame crack_density / max_depth_mm / damage_types as 0.0 / 0.0 / [],
\* and the report is the report for the results with those defaults written
\* in explicitly.
C17_MissingFieldsDefault ==
    op = "calculate_overall_severity" =>
        /\ pc # "raised"
        /\ pc = "done" =>
            /\ ret = SeverityAnalysis(ExplicitCrack, ExplicitDepth, ExplicitDamage)
            /\ "average_crack_density" \notin DOMAIN args[1] =>
                    ret.input_metrics.average_crack_density = Zero
            /\ "max_depth_estimate_mm" \notin DOMAIN args[2] =>
                    ret.input_metrics.max_depth_mm = Zero
            /\ "detected_damage_types" \notin DOMAIN args[3] =>
                    ret.input_metrics.damage_types = <<>>
            /\ (\E i \in 1..3 : "frame_results" \notin DOMAIN args[i]) =>
                    ret.severity_timeline = <<>>

\* results without aggregates whose single frames carry no measurement
C17_Witness ==
    /\ Returned("calculate_overall_severity")
    /\ "average_crack_density" \notin DOMAIN args[1]
    /\ "max_depth_estimate_mm" \notin DOMAIN args[2]
    /\ "detected_damage_types" \notin DOMAIN args[3]
    /\ \A i \in 1..3 : "frame_results" \in DOMAIN args[i] /\ args[i].frame_results = <<EmptyDict>>
    /\ Len(ret.severity_timeline) = 1
    /\ ret.severity_timeline[1].severity = Zero
    /\ ret.overall_severity_score = Zero

\* C18: every call of calculate_overall_severity writes its report exactly
\* once to severity_analysis_results.json and returns it: the file has been
\* written as often as calls have returned, nothing else is in output_dir,
\* the document in the file, loaded again, is the report returned by the most
\* recent call, field for field, and that report is the one compiled from the
\* arguments of that call.
C18_PersistedOnceLatestWins ==
    /\ writes = returns
    /\ DOMAIN files \subseteq {RESULTS_FILE}
    /\ returns = 0 => files = <<>>
    /\ returns >= 1 =>
            /\ RESULTS_FILE \in DOMAIN files
            /\ json_load(files[RESULTS_FILE]) = ret
    /\ Returned("calculate_overall_severity") =>
            ret = SeverityAnalysis(args[1], args[2], args[3])

\* the third call on one output_dir, with a report unlike the one before
C18_Witness ==
    /\ Returned("calculate_overall_severity")
    /\ returns = 3
    /\ writes = 3
    /\ args = SevereDamage
    /\ json_load(files[RESULTS_FILE]).recommended_action = "replace-immediately"
    /\ json_load(files[RESULTS_FILE]).input_metrics.damage_types
            = <<"cuts", "chunking", "flat-spots">>

\* the low, medium and high severity inputs of test_calculate_severity_score
LowSeverity    == <<QInt(1), Q(5, 10), <<"grain">>>>
MediumSeverity == <<QInt(3), QInt(2), <<"micro-cracks">>>>
HighSeverity   == <<QInt(8), Q(45, 10), <<"chunking", "cuts">>>>

ScoreOf(input) == calculate_severity_score(input[1], input[2], input[3])

\* C19: calculate_severity_score is monotone: a larger crack_density, a
\* larger depth_mm, or labels added before or after damage_types never give
\* a lower score; and the low, medium and high inputs of the tests score in
\* increasing order, the low one below 30 and the high one above 70.
C19_ScoreMonotone ==
    Returned("calculate_severity_score") =>
        /\ \A d \in Densities :
                QLe(args[1], d) => QLe(ret, calculate_severity_score(d, args[2], args[3]))
        /\ \A m \in Depths :
                QLe(args[2], m) => QLe(ret, calculate_severity_score(args[1], m, args[3]))
        /\ \A B \in ExtraLists :
                /\ QLe(ret, calculate_severity_score(args[1], args[2], args[3] \o B))
                /\ QLe(ret, calculate_severity_score(args[1], args[2], B \o args[3]))
        /\ args = LowSeverity    => QLt(ret, QInt(30)) /\ QLt(ret, ScoreOf(MediumSeverity))
        /\ args = MediumSeverity => QLt(ret, ScoreOf(HighSeverity))
        /\ args = HighSeverity   => QLt(QInt(70), ret)

\* the medium input: 39, more with a denser crack pattern or a worse label
C19_Witness ==
    /\ Returned("calculate_severity_score")
    /\ args = MediumSeverity
    /\ ret = QInt(39)
    /\ QLt(ret, calculate_severity_score(QInt(8), args[2], args[3]))
    /\ QLt(ret, calculate_severity_score(args[1], args[2], args[3] \o <<"chunking">>))

\* the report has a score in [low, high] and the given action
ScoredWithin(low, high, action) ==
    /\ QLe(QInt(low), ret.overall_severity_score)
    /\ QLe(ret.overall_severity_score, QInt(high))
    /\ ret.recommended_action = action

\* C20: end to end, with empty frame sequences, the minor scenario (1.0,
\* 0.8, [grain]) scores in [0, 30) with action safe-qualifying-only, the
\* moderate scenario (4.0, 2.5, [micro-cracks, grain]) scores in [40, 70]
\* with action monitor-next-stint, and the severe scenario (8.0, 4.5,
\* [cuts, chunking, flat-spots]) scores in [70, 100] with action
\* replace-immediately.
C20_ScenarioActions ==
    Returned("calculate_overall_severity") =>
        /\ args = MinorDamage =>
                /\ ScoredWithin(0, 30, "safe-qualifying-only")
                /\ ret.overall_severity_score # QInt(30)
        /\ args = ModerateDamage => ScoredWithin(40, 70, "monitor-next-stint")
        /\ args = SevereDamage   => ScoredWithin(70, 100, "replace-immediately")

\* C20, amended: as above, except that the score of the moderate scenario,
\* in [40, 70], is below 50, so its action is safe-qualifying-only.
C20_ScenarioActionsAmended ==
    Returned("calculate_overall_severity") =>
        /\ args = MinorDamage =>
                /\ ScoredWithin(0, 30, "safe-qualifying-only")
                /\ ret.overall_severity_score # QInt(30)
        /\ args = ModerateDamage =>
                /\ ScoredWithin(40, 70, "safe-qualifying-only")
                /\ QLt(ret.overall_severity_score, QInt(50))
        /\ args = SevereDamage   => ScoredWithin(70, 100, "replace-immediately")

C20_Witness ==
    /\ Returned("calculate_overall_severity")
    /\ args = ModerateDamage
    /\ ret.severity_timeline = <<>>
    /\ ret.overall_severity_score = QInt(46)
    /\ ret.recommended_action = "safe-qualifying-only"

\* the frames of the video that were analysed
Analyzed == SelectSeq(args[1], LAMBDA frame : frame.loaded)

\* in how many analysed frames the damage type was found
FramesWith(damage_type) ==
    Cardinality({j \in DOMAIN Analyzed : damage_type \in Range(Analyzed[j].damage_types)})

\* C22: the detected_damage_types the damage classifier hands on to the
\* severity calculation is the full set of damage types ever detected: it
\* contains every damage type found in at least one analysed frame.
C22_FullSetOfDetectedTypes ==
    Returned("analyze_video_damage_classification") =>
        \A damage_type \in Range(DamageType) :
            FramesWith(damage_type) >= 1 =>
                damage_type \in Range(ret.detected_damage_types)

\* C22, amended: detected_damage_types holds exactly the damage types found
\* in at least 20% of the analysed frames, each once; a type found in
\* fewer frames is left out.
C22_TypesInAFifthOfTheFrames ==
    Returned("analyze_video_damage_classification") =>
        /\ Range(ret.detected_damage_types) =
                {damage_type \in Range(DamageType) :
                    5 * FramesWith(damage_type) >= Len(Analyzed)}
        /\ Len(ret.detected_damage_types) = Cardinality(Range(ret.detected_damage_types))
        /\ ret.total_frames_analyzed = Len(Analyzed)

\* six analysed frames, one of them with a cut
C22_Witness ==
    /\ Returned("analyze_video_damage_classification")
    /\ ret.total_frames_analyzed = 6
    /\ FramesWith("cuts") = 1
    /\ "cuts" \notin Range(ret.detected_damage_types)

\* C30: a damage type is reported in detected_damage_types only if it was
\* found in at least one analysed frame, and in at least 20% of them; when no
\* frame could be analysed, detected_damage_types is empty and the headline
\* damage_type_score it leads to is 0.
C30_OnlyDetectedTypesReported ==
    Returned("analyze_video_damage_classification") =>
        /\ \A damage_type \in Range(ret.detected_damage_types) :
                /\ FramesWith(damage_type) >= 1
                /\ 5 * FramesWith(damage_type) >= Len(Analyzed)
        /\ ret.frame_results = <<>> =>
                /\ ret.detected_damage_types = <<>>
                /\ calculate_damage_type_severity(ret.detected_damage_types) = Zero

\* the latest exchange was a submission / a status query
IsSubmission  == response # <<>> /\ "paths" \in DOMAIN response.request
IsStatusQuery == response # <<>> /\ "status_of" \in DOMAIN response.request

\* the ids with a record in some job table
StoredJobIds == UNION {DOMAIN JobTable(kind) : kind \in Kinds}

\* C23: a submission that names a required input path which does not exist
\* is answered with 404 and leaves the job tables as they were, with no
\* record created and no background task scheduled; and a submission that is
\* accepted names only paths that exist.
C23_RejectedSubmissionLeavesNoTrace ==
    [][ /\ (response' # <<>> /\ response' # response /\ response'.status_code = 404) =>
                /\ jobs' = jobs
                /\ tasks' = tasks
        /\ (response' # <<>> /\ response' # response /\ "paths" \in DOMAIN response'.request) =>
                /\ (\E k \in DOMAIN response'.request.paths :
                        response'.request.paths[k] \notin DOMAIN disk)
                        => response'.status_code = 404
                /\ response'.status_code = 404 =>
                        /\ response'.detail \notin DOMAIN disk
                        /\ response'.detail \in Range(response'.request.paths)
        /\ \A job_id \in DOMAIN tasks' \ DOMAIN tasks :
                /\ response'.status_code = 200
                /\ \A k \in DOMAIN tasks'[job_id].request.paths :
                        tasks'[job_id].request.paths[k] \in DOMAIN disk
      ]_vars

\* a submission rejected for its second path, after one that was accepted
C23_Witness ==
    /\ IsSubmission
    /\ response.status_code = 404
    /\ response.request.kind = "depth-estimation"
    /\ response.detail = response.request.paths[2]
    /\ DOMAIN tasks = {1}
    /\ StoredJobIds = {1}

\* C24: an accepted submission stores, under a job_id no job had before, a
\* record with status queued, progress 0.0, metadata None and error None and
\* changes no other record; a record once stored stays in its table; a
\* status query changes no job table, answers 404 for a job_id its table
\* does not hold, and otherwise answers with the fields of the record.
C24_QueuedRecordAndStatusQueries ==
    [][ /\ \A kind \in Kinds : DOMAIN JobTable(kind) \subseteq DOMAIN JobTable(kind)'
        /\ (response' # <<>> /\ response' # response /\ "paths" \in DOMAIN response'.request
                /\ response'.status_code = 200) =>
                LET job_id == response'.job_id
                    kind   == response'.request.kind
                IN  /\ job_id \notin StoredJobIds
                    /\ response'.status = "queued"
                    /\ Get(jobs', kind, EmptyDict)[job_id] =
                            [status |-> "queued", progress |-> Zero,
                             metadata |-> None, error |-> None]
                    /\ \A k \in Kinds : \A j \in DOMAIN JobTable(k) :
                            JobTable(k)'[j] = JobTable(k)[j]
        /\ (response' # <<>> /\ response' # response /\ "status_of" \in DOMAIN response'.request) =>
                LET job_id == response'.request.status_of
                    kind   == response'.request.kind
                IN  /\ jobs' = jobs
                    /\ IF job_id \in DOMAIN JobTable(kind)
                       THEN /\ response'.status_code = 200
                            /\ response'.job_id   = job_id
                            /\ response'.status   = JobTable(kind)[job_id].status
                            /\ response'.progress = JobTable(kind)[job_id].progress
                            /\ response'.metadata = JobTable(kind)[job_id].metadata
                            /\ response'.error    = JobTable(kind)[job_id].error
                       ELSE response'.status_code = 404
      ]_vars

\* the second job, still queued, is found by a status query
C24_Witness ==
    /\ IsStatusQuery
    /\ response.status_code = 200
    /\ response.job_id = 2
    /\ response.status = "queued"
    /\ response.progress = Zero
    /\ response.metadata = None
    /\ response.error = None

\* C25: a status query that sees a job as completed sees progress 1.0, a
\* metadata that is not None and an error that is None; one that sees it as
\* failed sees an error that is not None, metadata None and a progress below
\* 1.0; no query sees completed before the metadata.
C25_CompletedComesWithMetadata ==
    (IsStatusQuery /\ response.status_code = 200) =>
        /\ response.status = "completed" =>
                /\ response.progress = One
                /\ response.metadata # None
                /\ response.error = None
        /\ response.status = "failed" =>
                /\ response.error # None
                /\ response.metadata = None
                /\ QLt(response.progress, One)

\* a query that finds the report of a completed severity calculation
C25_Witness ==
    /\ IsStatusQuery
    /\ response.status_code = 200
    /\ response.request.kind = "severity-calculation"
    /\ response.status = "completed"
    /\ response.metadata = Some(SeverityAnalysis(SevereDamage[1], SevereDamage[2],
                                                  SevereDamage[3]))

\* the place of a status on the way queued -> processing -> completed | failed
StatusRank(status) ==
    CASE status = "queued"     -> 0
      [] status = "processing" -> 1
      [] status \in {"completed", "failed"} -> 2

Settled(job_id) ==
    \E kind \in Kinds :
        /\ job_id \in DOMAIN JobTable(kind)
        /\ JobTable(kind)[job_id].status \in {"completed", "failed"}

\* C27: every accepted job eventually is completed or failed, provided its
\* background task is eventually run and the computation returns or raises;
\* no job stays queued or processing for ever.
C27_EveryJobSettles ==
    \A job_id \in JobIds : (job_id \in StoredJobIds) ~> Settled(job_id)

\* all jobs the service accepts have settled, one of them after a failure
C27_Witness ==
    /\ Cardinality(StoredJobIds) = MaxJobs
    /\ \A job_id \in StoredJobIds : Settled(job_id) /\ tasks[job_id].pc = "finished"
    /\ \E job_id \in StoredJobIds : tasks[job_id].exception # None

\* the severity task of job_id ran into a results file that was not there
LoadFailed(job_id) ==
    /\ tasks[job_id].kind = "severity-calculation"
    /\ tasks[job_id].exception # None
    /\ tasks[job_id].exception[1].type = "FileNotFoundError"

\* C28: when a results file cannot be loaded by the severity task, the
\* exception is handled in the task: the job ends failed with its error set
\* and metadata None, no report is compiled or written for it, and every
\* change of a record is made by the task of that job alone.
C28_LoadFailureFailsOnlyItsJob ==
    /\ [](\A job_id \in DOMAIN tasks : LoadFailed(job_id) =>
            /\ tasks[job_id].pc \in {"except", "error", "finished"}
            /\ tasks[job_id].metadata = None
            /\ writes = Cardinality({j \in DOMAIN tasks :
                        tasks[j].kind = "severity-calculation" /\ tasks[j].metadata # None})
            /\ tasks[job_id].pc = "finished" =>
                    LET job == JobTable("severity-calculation")[job_id]
                    IN  /\ job.status = "failed"
                        /\ job.error = Some(tasks[job_id].exception[1].message)
                        /\ job.metadata = None)
    /\ [][ \A kind \in Kinds : \A job_id \in DOMAIN JobTable(kind) :
                JobTable(kind)'[job_id] # JobTable(kind)[job_id] =>
                    /\ tasks'[job_id] # tasks[job_id]
                    /\ \A other \in DOMAIN tasks \ {job_id} : tasks'[other] = tasks[other]
                    /\ \A k \in Kinds : \A other \in DOMAIN JobTable(k) \ {job_id} :
                            JobTable(k)'[other] = JobTable(k)[other]
          ]_vars

\* a severity job failed on a file removed after its submission, beside a
\* severity job that completed
C28_Witness ==
    /\ EventLoopFree
    /\ \E job_id \in DOMAIN tasks :
            /\ LoadFailed(job_id)
            /\ tasks[job_id].exception[1].message \in Removable
            /\ JobTable("severity-calculation")[job_id].status = "failed"
    /\ \E job_id \in DOMAIN tasks :
            /\ tasks[job_id].kind = "severity-calculation"
            /\ JobTable("severity-calculation")[job_id].status = "completed"
    /\ writes = 1

\* the report of the same call made alone: what calculate_overall_severity
\* compiles from the arguments, with the class attributes of the class body
ReportAlone(task) ==
    SeverityAnalysis(tasks[task].args[1], tasks[task].args[2], tasks[task].args[3])

\* C21: however the statements of concurrent severity computations with
\* disjoint output directories interleave, a call that has returned has
\* returned the report it compiles when run alone, the file in its
\* output_dir holds that report, and DAMAGE_TYPE_SEVERITY and the weights
\* are as the class body set them.
C21_ConcurrentCallsAreIndependent ==
    /\ class_attrs = ClassBody
    /\ \A task \in DOMAIN tasks : "output_dir" \in DOMAIN tasks[task] =>
            /\ tasks[task].pc \in {"return", "done"} =>
                    LET directory == disk[tasks[task].output_dir]
                    IN  /\ DOMAIN directory = {RESULTS_FILE}
                        /\ directory[RESULTS_FILE] = json_dump(ReportAlone(task))
                        /\ json_load(directory[RESULTS_FILE]) = ReportAlone(task)
            /\ tasks[task].pc = "done" => tasks[task].ret = Some(ReportAlone(task))

\* all calls have returned, with different reports, one of them with a
\* timeline
C21_Witness ==
    /\ DOMAIN tasks = TaskIds
    /\ \A task \in TaskIds : "output_dir" \in DOMAIN tasks[task] /\ tasks[task].pc = "done"
    /\ \A t1, t2 \in TaskIds : t1 # t2 => tasks[t1].ret # tasks[t2].ret
    /\ \E task \in TaskIds : Len(tasks[task].ret[1].severity_timeline) > 0
    /\ writes = MaxTasks

\* 0.40 * crack_density_score + 0.30 * depth_score + 0.30 * damage_type_score
WeightedSum64(scores) ==
    FAdd(FAdd(FMul(Double(Q(40, 100)), scores.crack_density_score),
              FMul(Double(Q(30, 100)), scores.depth_score)),
         FMul(Double(Q(30, 100)), scores.damage_type_score))

\* C29 as stated: the headline score of a report is 0.40 *
\* crack_density_score + 0.30 * depth_score + 0.30 * damage_type_score of
\* its component_scores, and the severity of a timeline point is the same
\* combination of the point's three component scores.
C29_ScoresAreTheWeightedSum ==
    /\ Returned("calculate_overall_severity") =>
            ret.overall_severity_score = WeightedSum64(ret.component_scores)
    /\ Returned("calculate_frame_severity") =>
            ret.severity_score = WeightedSum64(ret)

\* C29 amended: the headline score and the severity of a timeline point
\* are within 2^-40 (less than 1e-12) of the weighted sum of the component
\* scores listed beside them; they are rounded differently and need not be
\* equal to it.
C29_ScoresNearTheWeightedSum ==
    /\ Returned("calculate_overall_severity") =>
            Within(ret.overall_severity_score, WeightedSum64(ret.component_scores), 40)
    /\ Returned("calculate_frame_severity") =>
            Within(ret.severity_score, WeightedSum64(ret), 40)

\* the moderate scenario: component scores 40, 50 and 50, weighted sum 46,
\* headline score the next double above 46
C29_Witness ==
    /\ Returned("calculate_overall_severity")
    /\ args = ModerateDamage
    /\ ret.component_scores = [crack_density_score |-> FromInt(40),
                               depth_score         |-> FromInt(50),
                               damage_type_score   |-> FromInt(50)]
    /\ WeightedSum64(ret.component_scores) = FromInt(46)
    /\ ret.overall_severity_score # FromInt(46)
    /\ FLess(FromInt(46), ret.overall_severity_score)
    /\ Within(ret.overall_severity_score, FromInt(46), 46)

====
